---------------------------- MODULE Spec2Model ----------------------------
(***************************************************************************)
(* InterShareSDK: the discovery registry (discovery.rs) and the transfer   *)
(* plane (share_store.rs, connection_request.rs, tar.rs, progress.rs,      *)
(* transmission/tcp.rs) as state machines.                                 *)
(*                                                                         *)
(* Two specifications share the module:                                    *)
(*   SpecDiscovery  one InternalDiscovery, the process-wide statics        *)
(*                  DISCOVERED_DEVICES and DELEGATES, and a dialer that    *)
(*                  looks a device up with get_connection_details;         *)
(*   SpecTransfer   one connection: a sender running ShareStore::send_to,  *)
(*                  the listener that reads the Request, and receiver      *)
(*                  threads calling accept / decline / cancel on the       *)
(*                  resulting ConnectionRequest.                           *)
(***************************************************************************)
EXTENDS Naturals, Sequences, FiniteSets, Bags, TLC

\* ------------------------------------------------------------------------
\* Option<T>
\* ------------------------------------------------------------------------
None == [some |-> FALSE]

Some(x) == [some |-> TRUE, val |-> x]

\* ------------------------------------------------------------------------
\* Bounds of the discovery model
\* ------------------------------------------------------------------------
\* Number of parse_discovery_message / start calls in one behaviour.
MaxMessages == 3

DeviceIds == {"d1", "d2"}

DeviceNames == {"n1", "n2"}

\* BLE peripheral uuids the transport may supply with a message.
ScannerUuids == {"u1"}

\* Registration ids in DELEGATES: the modelled InternalDiscovery's own
\* current_delegate_id and that of another InternalDiscovery of the process.
SelfDelegate == "self"

OtherDelegate == "other"

DelegateIds == {SelfDelegate, OtherDelegate}

\* protocol::discovery::Device
Devices == [id : DeviceIds, name : DeviceNames]

TcpInfos == {None, Some([hostname |-> "h", port |-> 4251])}

BleInfos == {None, Some([uuid |-> "u0", psm |-> 1])}

\* protocol::discovery::DeviceConnectionInfo as a peer sends it
DeviceConnectionInfos == [device : {Some(d) : d \in Devices}, tcp : TcpInfos, ble : BleInfos]

\* DeviceDiscoveryMessage::decode_length_delimited(data): Err, or Ok(message)
\* with content None, DeviceConnectionInfo (device possibly unset) or
\* OfflineDeviceId.
DiscoveryMessages ==
    {[kind |-> "undecodable"], [kind |-> "nocontent"]}
    \cup {[kind |-> "info", info |-> [device |-> None, tcp |-> None, ble |-> None]]}
    \cup {[kind |-> "info", info |-> i] : i \in DeviceConnectionInfos}
    \cup {[kind |-> "offline", id |-> d] : d \in DeviceIds}

\* Threads of the transports that call parse_discovery_message.
ScannerThreads == {"s1", "s2"}

\* parse_discovery_message calls of all scanner threads in one behaviour.
MaxParses == 3

\* The messages the scanner threads hand in: two sightings of one device that
\* differ in their tcp info, and the device's OfflineDeviceId.
SightingMessages ==
    {[kind |-> "info",
      info |-> [device |-> Some([id |-> "d1", name |-> "n1"]), tcp |-> t,
                ble |-> None]] : t \in TcpInfos}
    \cup {[kind |-> "offline", id |-> "d1"]}

\* ------------------------------------------------------------------------
\* HashMap<String, V> as a function on a finite set of keys
\* ------------------------------------------------------------------------
EmptyMap == [k \in {} |-> None]

MapInsert(m, k, v) == [x \in (DOMAIN m) \cup {k} |-> IF x = k THEN v ELSE m[x]]

MapRemove(m, k) == [x \in (DOMAIN m) \ {k} |-> m[x]]

MapGet(m, k) == IF k \in DOMAIN m THEN Some(m[k]) ELSE None

\* ------------------------------------------------------------------------
\* Bounds and inputs of the transfer model
\* ------------------------------------------------------------------------
\* Receiver threads that call accept / decline on the ConnectionRequest.
Threads == {"t1", "t2"}

\* accept / decline calls made on the ConnectionRequest, by all threads.
MaxCalls == 2

\* Entries of the archive the sender streams.
MaxEntries == 1

EntryTypes == {"Regular", "Directory"}

Archives == UNION {[1..n -> EntryTypes] : n \in 0..MaxEntries}

\* The blocks of the archive stream_tar writes for the entries: a header per
\* entry, the data of a regular file after its header, the end marker last.
RECURSIVE TarBlocks(_)
TarBlocks(entries) ==
    IF entries = <<>>
    THEN <<"End">>
    ELSE (IF Head(entries) = "Regular" THEN <<"Regular", "Data">>
                                        ELSE <<Head(entries)>>)
         \o TarBlocks(Tail(entries))

\* Clipboard texts a session may carry.
Texts == {"a", "b"}

\* Share ids a convenience link may carry.
ShareIds == {"i1"}

\* What a ShareStore holds when send_to is called: text, or files with the
\* archive in tmp_file and the size read from the zip handle's metadata.
Payloads ==
    {[kind |-> "text", clipboard |-> c, delegate |-> d] : c \in Texts, d \in BOOLEAN}
    \cup UNION {{[kind |-> "files", tmp_file |-> TarBlocks(a), file_size |-> n,
                   delegate |-> d] : n \in {0, Len(TarBlocks(a))}, d \in BOOLEAN} :
                 a \in Archives}

VARIABLES
    DISCOVERED_DEVICES,   \* static: id -> DeviceConnectionInfo
    DELEGATES,            \* static: registration ids of the observers
    discovered_devices,   \* InternalDiscovery.discovered_devices
    delegate_calls,       \* callbacks made by the last handler, per observer
    last_call,            \* the last handler call and what it found
    recent,               \* per id: the most recent message since start()
    n_messages,           \* calls made so far
    observed              \* the device list an observer keeps from its callbacks

discoveryVars ==
    <<DISCOVERED_DEVICES, DELEGATES, discovered_devices, delegate_calls,
      last_call, recent, n_messages, observed>>

VARIABLES
    s_pc,            \* sender: position in send_to
    s_payload,       \* sender: the ShareStore's payload
    s_written,       \* sender: all_written
    s_resp,          \* sender: the TransferRequestResponse it read
    s_result,        \* sender: what send_to returned
    s_log,           \* sender: states passed to its progress delegate
    s_sent,          \* sender: kinds of everything it wrote to the stream
    s_fault,         \* sender: the IO fault its send or its copy loop met
    s2r,             \* stream, sender to receiver: written and not yet read
    r2s,             \* stream, receiver to sender: written and not yet read
    r2s_hist,        \* every TransferRequestResponse the receiver wrote
    request,         \* ConnectionRequest.transfer_request (None before receipt)
    should_cancel,   \* ConnectionRequest.should_cancel
    r_delegate,      \* ConnectionRequest has a receive_progress_delegate
    connection,      \* ConnectionRequest.connection: the mutex's holder
    t_pc,            \* receiver thread: position in accept / decline
    n_calls,         \* accept / decline calls made
    t_ret,           \* receiver thread: its last returned call
    untar,           \* locals of the running untar_stream
    untar_started,   \* number of untar_stream calls
    r_log,           \* states passed to the receive progress delegate
    close_calls,     \* close() calls on the encrypted stream
    n_returned       \* accept / decline calls that returned

transferVars ==
    <<s_pc, s_payload, s_written, s_resp, s_result, s_log, s_sent, s_fault,
      s2r, r2s, r2s_hist, request, should_cancel, r_delegate, connection, t_pc, n_calls,
      t_ret, untar, untar_started, r_log, close_calls, n_returned>>

VARIABLES
    l_reads,         \* listener: types of the Requests read from the connection
    l_delivered      \* listener: received_connection_request calls made

listenerVars == <<l_reads, l_delivered>>

VARIABLES
    ble_l2_cap_client,   \* Connection.ble_l2_cap_client holds an L2CapDelegate
    L2CAP_CONNECTIONS,   \* static: connection ids with a waiting Sender
    c_pc,                \* Connection::connect: its position
    c_delegate,          \* connect was given a progress delegate
    c_id,                \* bluetooth_l2cap_id of the running connect
    c_channel,           \* the oneshot channel of the running connect
    c_log,               \* media passed to the delegate by the last connect
    c_call,              \* what the last connect found on its way
    c_result,            \* what the last connect returned
    open_l2cap_calls,    \* open_l2cap_connection calls made by the last connect
    n_dials,             \* connect calls made
    l2cap_taken,         \* ids whose Sender a running delivery has removed
    l2cap_sent,          \* per id: streams given to the id's Sender
    last_incoming,       \* the last delivery's removal and what it found
    n_incoming           \* handle_incoming_l2cap_connection calls made

incomingVars == <<l2cap_taken, l2cap_sent, last_incoming, n_incoming>>

dialVars ==
    <<ble_l2_cap_client, L2CAP_CONNECTIONS, c_pc, c_delegate, c_id, c_channel,
      c_log, c_call, c_result, open_l2cap_calls, n_dials, incomingVars>>

VARIABLES
    tcp_server,              \* InternalNearbyServer.tcp_server: the bound port
    own_connection_info,     \* InternalNearbyServer.device_connection_info
    current_share_store,     \* InternalNearbyServer.current_share_store
    tmp_file,                \* the session's tmp_file still holds its file
    generate_link_call,      \* the last generate_link call and its result
    send_to_call,            \* the last send_to call on the session
    session_terminal,        \* terminal states the session's sender entered
    n_shares,                \* share_text / share_files calls made
    n_sends                  \* send_to calls made on the session

shareVars ==
    <<tcp_server, own_connection_info, current_share_store, tmp_file,
      generate_link_call, send_to_call, session_terminal, n_shares, n_sends>>

VARIABLES
    requested_download_id,   \* InternalNearbyServer.requested_download_id
    request_download_call,   \* the last request_download call and what it did
    n_downloads              \* request_download calls made

downloadVars == <<requested_download_id, request_download_call, n_downloads>>

VARIABLES
    u_pc,            \* untar_stream: "idle", "entries", "done" or "failed"
    platform,        \* the platform the build runs on
    files,           \* regular files that exist
    dirs,            \* directories that exist
    restored_paths,  \* untar_stream's restored_paths
    top_level_map,   \* untar_stream's top_level_map
    written,         \* the paths untar_stream created or wrote
    last_entry,      \* the last entry met and what was there before it
    n_entries,       \* entries met so far
    at_start,        \* the paths that existed when untar_stream was called
    pending,         \* the entry whose target path was chosen, not yet written
    n_others,        \* writes made by a concurrent extraction
    cancel_flag,     \* the cancel_flag untar_stream was given
    at_cancel        \* the entries met when cancel_flag was set

untarVars ==
    <<u_pc, platform, files, dirs, restored_paths, top_level_map, written,
      last_entry, n_entries, at_start, pending, n_others, cancel_flag, at_cancel>>

VARIABLES
    advertise,            \* InternalNearbyServer.advertise
    gatt_characteristic,  \* windows: the info the read handler was built with
    read_call             \* the last read of the discovery characteristic

advertVars == <<advertise, gatt_characteristic, read_call>>

VARIABLES
    registry_lock,   \* holder of the write guard on self.discovered_devices
    parse_pc,        \* per scanner thread: position in parse_discovery_message
    parse_msg,       \* per scanner thread: the message it is handling
    notified,        \* device_added / device_removed calls, in the order made
    n_parses,        \* parse_discovery_message calls started so far
    reentry          \* the last call an observer made from inside its callback

parseVars == <<registry_lock, parse_pc, parse_msg, notified, n_parses, reentry>>

VARIABLES
    tcp_servers,     \* every TcpServer made so far: its running flag and task
    installed,       \* index of the TcpServer in self.tcp_server, 0 for None
    late             \* what tasks did after stop_tcp_server had stopped them

acceptVars == <<tcp_servers, installed, late>>

VARIABLES
    seen_recently,       \* addresses in discovered_devices seen within the window
    active_connections,  \* keys of the active_connections map
    gatt_tasks,          \* bag of running connect_and_read_characteristic tasks
    last_task,           \* the task that returned last: its attempts and result
    n_adverts            \* advertisements the watcher handed in so far

scanVars == <<seen_recently, active_connections, gatt_tasks, last_task, n_adverts>>

\* The state of the planes in which several tasks interleave.
VARIABLES
    reader_read,     \* ProgressReader.read, the running total
    inner_taken,     \* bytes the inner stream has handed out
    callback_calls,  \* the callback's calls: the total passed, the bytes taken
    reader_cancel,   \* what should_cancel() returns
    last_read,       \* the last read call and what it met
    n_reads          \* read calls made

VARIABLES
    scanning,        \* InternalDiscovery.scanning, the flag every loop shares
    scan_loops,      \* every scan_and_connect thread spawned so far
    n_stops          \* calls of windows_stop_scanning

watcherVars == <<scanning, scan_loops, n_stops>>

readerVars ==
    <<reader_read, inner_taken, callback_calls, reader_cancel, last_read, n_reads>>

concurrentVars == <<parseVars, acceptVars, scanVars, readerVars, watcherVars>>

laterVars == <<shareVars, downloadVars, untarVars, advertVars, concurrentVars>>

\* What the share plane and the advertisement plane leave alone.
outsideShare ==
    <<discoveryVars, transferVars, listenerVars, dialVars, downloadVars, untarVars,
      concurrentVars>>

outsideDownload ==
    <<discoveryVars, transferVars, listenerVars, dialVars, shareVars, untarVars,
      advertVars, concurrentVars>>

outsideUntar ==
    <<discoveryVars, transferVars, listenerVars, dialVars, shareVars, downloadVars,
      advertVars, concurrentVars>>

outsideDiscovery == <<transferVars, listenerVars, dialVars, laterVars>>

outsideTransfer == <<discoveryVars, dialVars, laterVars>>

outsideDial == <<discoveryVars, transferVars, listenerVars, laterVars>>

vars == <<discoveryVars, transferVars, listenerVars, dialVars, laterVars>>

NoCalls == [d \in DelegateIds |-> [added |-> <<>>, removed |-> <<>>]]

NoneRecent == [d \in DeviceIds |-> [kind |-> "none"]]

\* InternalDiscovery::new(Some(delegate)) has run: the statics exist and the
\* delegate is registered under current_delegate_id.
InitDiscovery ==
    /\ DISCOVERED_DEVICES = EmptyMap
    /\ DELEGATES = {SelfDelegate}
    /\ discovered_devices = EmptyMap
    /\ delegate_calls = NoCalls
    /\ last_call = [op |-> "new"]
    /\ recent = NoneRecent
    /\ n_messages = 0
    /\ observed = EmptyMap

\* get_connection_details(device)
get_connection_details(device) == MapGet(DISCOVERED_DEVICES, device.id)

\* InternalDiscovery::get_devices
get_devices == {discovered_devices[k].device.val : k \in DOMAIN discovered_devices}

\* The ble_uuid stamp of parse_discovery_message.
StampBleUuid(info, ble_uuid) ==
    IF ble_uuid.some /\ info.ble.some
    THEN [info EXCEPT !.ble = Some([info.ble.val EXCEPT !.uuid = ble_uuid.val])]
    ELSE info

\* add_discovered_device: device_added(device) on every delegate in DELEGATES.
add_discovered_device(calls, device) ==
    [d \in DelegateIds |->
        IF d \in DELEGATES
        THEN [calls[d] EXCEPT !.added = Append(@, device)]
        ELSE calls[d]]

\* Mutant: device_removed only for an id that is in the registry.
remove_discovered_device_IfPresent(calls, device_id) ==
    [d \in DelegateIds |->
        IF d \in DELEGATES /\ device_id \in DOMAIN discovered_devices
        THEN [calls[d] EXCEPT !.removed = Append(@, device_id)]
        ELSE calls[d]]

\* remove_discovered_device: device_removed(id) on every delegate in DELEGATES.
remove_discovered_device(calls, device_id) ==
    [d \in DelegateIds |->
        IF d \in DELEGATES
        THEN [calls[d] EXCEPT !.removed = Append(@, device_id)]
        ELSE calls[d]]

\* Mutant: only a new id is announced.
ShouldAnnounce_OnlyNew(devices, id, info) == id \notin DOMAIN devices

\* Whether the DeviceConnectionInfo arm announces the device to the observers.
ShouldAnnounce(devices, id, info) ==
    IF id \in DOMAIN devices THEN devices[id] # info ELSE TRUE

\* Mutant: the entry is kept.
OfflineRemove_Keep(devices, id) == devices

\* The OfflineDeviceId arm's change of self.discovered_devices.
OfflineRemove(devices, id) == MapRemove(devices, id)

\* The OfflineDeviceId arm's change of the static DISCOVERED_DEVICES: none.
OfflineStatic(devices, id) == devices

RECURSIVE AllAdded(_, _)
\* The list after device_added for each device of `added`, in order.
AllAdded(view, added) ==
    IF added = <<>> THEN view
    ELSE AllAdded(MapInsert(view, Head(added).id, Head(added)), Tail(added))

RECURSIVE AllRemoved(_, _)
\* The list after device_removed for each id of `removed`, in order.
AllRemoved(view, removed) ==
    IF removed = <<>> THEN view
    ELSE AllRemoved(MapRemove(view, Head(removed)), Tail(removed))

\* The device list the observer registered by InternalDiscovery::new keeps:
\* device_added puts the device in under its id, device_removed takes the id
\* out.
Observe(view, calls) ==
    AllRemoved(AllAdded(view, calls[SelfDelegate].added), calls[SelfDelegate].removed)

\* parse_discovery_message(data, ble_uuid), the whole handler.
parse_discovery_message(msg, ble_uuid) ==
    /\ n_messages < MaxMessages
    /\ n_messages' = n_messages + 1
    /\ UNCHANGED <<DELEGATES, outsideDiscovery>>
    /\ CASE msg.kind = "undecodable" \/ msg.kind = "nocontent" ->
              /\ last_call' = [op |-> "ignored"]
              /\ delegate_calls' = NoCalls
              /\ UNCHANGED <<DISCOVERED_DEVICES, discovered_devices, recent>>
         [] msg.kind = "info" /\ ~msg.info.device.some ->
              /\ last_call' = [op |-> "ignored"]
              /\ delegate_calls' = NoCalls
              /\ UNCHANGED <<DISCOVERED_DEVICES, discovered_devices, recent>>
         [] msg.kind = "info" /\ msg.info.device.some ->
              LET device == msg.info.device.val
                  device_connection_info == StampBleUuid(msg.info, ble_uuid)
                  announce == ShouldAnnounce(discovered_devices, device.id,
                                             device_connection_info)
              IN  /\ delegate_calls' =
                        IF announce THEN add_discovered_device(NoCalls, device)
                                    ELSE NoCalls
                  /\ discovered_devices' =
                        MapInsert(discovered_devices, device.id, device_connection_info)
                  /\ DISCOVERED_DEVICES' =
                        MapInsert(DISCOVERED_DEVICES, device.id, device_connection_info)
                  /\ recent' = [recent EXCEPT ![device.id] =
                                    [kind |-> "info", info |-> msg.info,
                                     ble_uuid |-> ble_uuid]]
                  /\ last_call' = [op |-> "info", id |-> device.id,
                                   device |-> device,
                                   info |-> device_connection_info,
                                   before |-> MapGet(discovered_devices, device.id),
                                   registry_before |-> discovered_devices,
                                   delegates |-> DELEGATES]
         [] msg.kind = "offline" ->
              /\ discovered_devices' = OfflineRemove(discovered_devices, msg.id)
              /\ DISCOVERED_DEVICES' = OfflineStatic(DISCOVERED_DEVICES, msg.id)
              /\ delegate_calls' = remove_discovered_device(NoCalls, msg.id)
              /\ recent' = [recent EXCEPT ![msg.id] = [kind |-> "offline"]]
              /\ last_call' = [op |-> "offline", id |-> msg.id,
                               before |-> MapGet(discovered_devices, msg.id),
                               delegates |-> DELEGATES]
    /\ observed' = Observe(observed, delegate_calls')

ParseDiscoveryMessage ==
    \E msg \in DiscoveryMessages, ble_uuid \in {None} \cup {Some(u) : u \in ScannerUuids} :
        parse_discovery_message(msg, ble_uuid)

\* InternalDiscovery::start: both maps are cleared (the scanner delegate is
\* external).
start ==
    /\ n_messages < MaxMessages
    /\ n_messages' = n_messages + 1
    /\ DISCOVERED_DEVICES' = EmptyMap
    /\ discovered_devices' = EmptyMap
    /\ recent' = NoneRecent
    /\ delegate_calls' = NoCalls
    /\ last_call' = [op |-> "start"]
    /\ observed' = Observe(observed, delegate_calls')
    /\ UNCHANGED <<DELEGATES, outsideDiscovery>>

\* InternalDiscovery::stop: the instance's own delegate leaves DELEGATES, and
\* the observer is dropped with its list.
stop ==
    /\ SelfDelegate \in DELEGATES
    /\ DELEGATES' = DELEGATES \ {SelfDelegate}
    /\ delegate_calls' = NoCalls
    /\ last_call' = [op |-> "stop"]
    /\ observed' = EmptyMap
    /\ UNCHANGED <<DISCOVERED_DEVICES, discovered_devices, recent, n_messages,
                   outsideDiscovery>>

\* Another InternalDiscovery::new(Some(delegate)) of the same process: its
\* delegate joins the process-wide DELEGATES.
new_other ==
    /\ OtherDelegate \notin DELEGATES
    /\ DELEGATES' = DELEGATES \cup {OtherDelegate}
    /\ delegate_calls' = NoCalls
    /\ last_call' = [op |-> "new"]
    /\ observed' = Observe(observed, delegate_calls')
    /\ UNCHANGED <<DISCOVERED_DEVICES, discovered_devices, recent, n_messages,
                   outsideDiscovery>>

\* stop() of that other InternalDiscovery.
stop_other ==
    /\ OtherDelegate \in DELEGATES
    /\ DELEGATES' = DELEGATES \ {OtherDelegate}
    /\ delegate_calls' = NoCalls
    /\ last_call' = [op |-> "stop"]
    /\ observed' = Observe(observed, delegate_calls')
    /\ UNCHANGED <<DISCOVERED_DEVICES, discovered_devices, recent, n_messages,
                   outsideDiscovery>>

\* Connection::connect(device), up to its registry lookup: without connection
\* details the dial fails with FailedToGetConnectionDetails.
connect_lookup ==
    \E device \in Devices :
        /\ delegate_calls' = NoCalls
        /\ last_call' =
              [op |-> "connect", id |-> device.id,
               details |-> get_connection_details(device),
               result |-> IF get_connection_details(device).some
                          THEN "dialing"
                          ELSE "FailedToGetConnectionDetails"]
        /\ observed' = Observe(observed, delegate_calls')
        /\ UNCHANGED <<DISCOVERED_DEVICES, DELEGATES, discovered_devices, recent,
                       n_messages, outsideDiscovery>>

NextDiscovery ==
    \/ ParseDiscoveryMessage
    \/ start
    \/ stop
    \/ new_other
    \/ stop_other
    \/ connect_lookup

\* ------------------------------------------------------------------------
\* The transfer plane: one connection
\* ------------------------------------------------------------------------
NoReturn == [op |-> "none"]

NoUntar == [entry_result |-> "None", restored |-> 0, read |-> 0,
            outcome |-> "None", cancelled |-> FALSE]

InitTransfer ==
    /\ s_pc = "idle"
    /\ s_payload = None
    /\ s_written = 0
    /\ s_resp = None
    /\ s_result = None
    /\ s_log = <<>>
    /\ s_sent = <<>>
    /\ s_fault = "None"
    /\ s2r = <<>>
    /\ r2s = <<>>
    /\ r2s_hist = <<>>
    /\ request = None
    /\ should_cancel = FALSE
    /\ r_delegate = FALSE
    /\ connection = "free"
    /\ t_pc = [t \in Threads |-> "idle"]
    /\ n_calls = 0
    /\ t_ret = [t \in Threads |-> NoReturn]
    /\ untar = NoUntar
    /\ untar_started = 0
    /\ r_log = <<>>
    /\ close_calls = 0
    /\ n_returned = 0
    /\ l_reads = <<>>
    /\ l_delivered = 0

NoCall == [called |-> FALSE]

\* What a connect found: nothing before the first call.
NoConnect == [details |-> None, tcp |-> "None", client |-> FALSE,
              registry_written |-> FALSE]

\* Connection::new with the server's ble_l2_cap_client, which
\* InternalNearbyServer::new leaves empty; no connect has run.
InitDial ==
    /\ ble_l2_cap_client = FALSE
    /\ L2CAP_CONNECTIONS = {}
    /\ c_pc = "idle"
    /\ c_delegate = FALSE
    /\ c_id = 0
    /\ c_channel = "none"
    /\ c_log = <<>>
    /\ c_call = NoConnect
    /\ c_result = None
    /\ open_l2cap_calls = <<>>
    /\ n_dials = 0
    /\ l2cap_taken = {}
    /\ l2cap_sent = EmptyMap
    /\ last_incoming = NoCall
    /\ n_incoming = 0

\* The Device the server was constructed with.
MyDevice == [id |-> "d1", name |-> "n1"]

\* InternalNearbyServer::new: no TCP binding, no share session.
InitShare ==
    /\ tcp_server = None
    /\ own_connection_info = [device |-> Some(MyDevice), tcp |-> None, ble |-> None]
    /\ current_share_store = None
    /\ tmp_file = FALSE
    /\ generate_link_call = NoCall
    /\ send_to_call = NoCall
    /\ session_terminal = <<>>
    /\ n_shares = 0
    /\ n_sends = 0

\* InternalNearbyServer::new: no download was requested.
InitDownload ==
    /\ requested_download_id = None
    /\ request_download_call = NoCall
    /\ n_downloads = 0

\* The destination directory of untar_stream.
dest_dir == <<"dest">>

\* Before untar_stream is called: the destination directory exists.
InitUntar ==
    /\ u_pc = "idle"
    /\ platform = "unix"
    /\ files = {}
    /\ dirs = {dest_dir}
    /\ restored_paths = <<>>
    /\ top_level_map = EmptyMap
    /\ written = {}
    /\ last_entry = NoCall
    /\ n_entries = 0
    /\ at_start = {}
    /\ pending = None
    /\ n_others = 0
    /\ cancel_flag = FALSE
    /\ at_cancel = None

\* InternalNearbyServer::new: not advertising, no GATT service.
InitAdvert ==
    /\ advertise = FALSE
    /\ gatt_characteristic = None
    /\ read_call = NoCall

\* No scanner thread is inside parse_discovery_message.
InitParse ==
    /\ registry_lock = None
    /\ parse_pc = [t \in ScannerThreads |-> "idle"]
    /\ parse_msg = [t \in ScannerThreads |-> None]
    /\ notified = <<>>
    /\ n_parses = 0
    /\ reentry = NoCall

\* InternalNearbyServer::new: tcp_server is None, no accept loop was spawned.
InitAccept ==
    /\ tcp_servers = <<>>
    /\ installed = 0
    /\ late = {}

\* scan_and_connect has installed its handler: both maps are empty.
InitScan ==
    /\ seen_recently = {}
    /\ active_connections = {}
    /\ gatt_tasks = EmptyBag
    /\ last_task = NoCall
    /\ n_adverts = 0

\* ProgressReader::new
InitReader ==
    /\ reader_read = 0
    /\ inner_taken = 0
    /\ callback_calls = <<>>
    /\ reader_cancel = FALSE
    /\ last_read = NoCall
    /\ n_reads = 0

\* InternalDiscovery::new on Windows: scanning is false, no thread spawned.
InitWatcher ==
    /\ scanning = FALSE
    /\ scan_loops = <<>>
    /\ n_stops = 0

Init ==
    /\ InitDiscovery /\ InitTransfer /\ InitDial /\ InitShare /\ InitDownload
    /\ InitUntar /\ InitAdvert /\ InitParse /\ InitAccept /\ InitScan
    /\ InitReader /\ InitWatcher

senderVars ==
    <<s_pc, s_payload, s_written, s_resp, s_result, s_log, s_sent, s_fault>>

receiverVars ==
    <<request, should_cancel, r_delegate, connection, t_pc, n_calls, t_ret,
      untar, untar_started, r_log, close_calls, n_returned>>

\* share_store.rs update_progress: the states reach the delegate if there is one.
update_progress(progress_delegate, log, states) ==
    IF progress_delegate THEN log \o states ELSE log

\* The Request send_files builds.
FileTransferRequest(file_size) ==
    [type |-> "ShareRequest", intent |-> [kind |-> "FileTransfer", file_size |-> file_size]]

\* Mutant: the text is left out of the Request.
ClipboardRequest_NoContent(text) ==
    [type |-> "ShareRequest",
     intent |-> [kind |-> "Clipboard", clipboard_content |-> ""]]

\* The Request send_text builds.
ClipboardRequest(text) ==
    [type |-> "ShareRequest",
     intent |-> [kind |-> "Clipboard", clipboard_content |-> text]]

\* The Request request_download builds.
ConvenienceDownloadRequest(id) ==
    [type |-> "ConvenienceDownloadRequest", share_id |-> Some(id)]

\* ShareStore::send_to, up to the dial.
send_to ==
    /\ s_pc = "idle"
    /\ \E p \in Payloads :
          /\ s_payload' = Some(p)
          /\ s_log' = update_progress(p.delegate, s_log, <<[s |-> "Connecting"]>>)
    /\ s_pc' = "connect"
    /\ UNCHANGED <<s_written, s_resp, s_result, s_sent, s_fault, s2r, r2s,
                   r2s_hist, receiverVars, listenerVars, outsideTransfer>>

\* What `proto_stream.send(&transfer_request)` returns.
SendResults == {"Ok", "Err"}

\* `let _ = proto_stream.send(..)`: the stream after the send; a failed send
\* leaves no Request on it, and its result is not looked at.
AfterSend(stream, io, transfer_request) ==
    IF io = "Ok"
    THEN Append(stream, [kind |-> "Request", request |-> transfer_request])
    ELSE stream

\* Connection::connect succeeded over `medium`. send_text then sends its
\* Request and finishes; send_files sends its Request and awaits the response.
connect_ok ==
    /\ s_pc = "connect"
    /\ \E medium \in {"WiFi", "BLE"}, io \in SendResults :
          LET p == s_payload.val
              update == [s |-> "ConnectionMediumUpdate", medium |-> medium]
          IN  /\ s_fault' = (IF io = "Err" THEN "SendErr" ELSE s_fault)
              /\ IF p.kind = "text"
                 THEN /\ s_log' = update_progress(p.delegate, s_log,
                                     <<update,
                                       [s |-> "Transferring", progress |-> <<0, 1>>],
                                       [s |-> "Transferring", progress |-> <<4, 5>>],
                                       [s |-> "Finished"]>>)
                      /\ s2r' = AfterSend(s2r, io, ClipboardRequest(p.clipboard))
                      /\ s_result' = Some("Ok")
                      /\ s_pc' = "done"
                 ELSE /\ s_log' = update_progress(p.delegate, s_log,
                                     <<update, [s |-> "Requesting"]>>)
                      /\ s2r' = AfterSend(s2r, io, FileTransferRequest(p.file_size))
                      /\ s_result' = s_result
                      /\ s_pc' = "await_response"
    /\ s_sent' = Append(s_sent, "Request")
    /\ UNCHANGED <<s_payload, s_written, s_resp, r2s, r2s_hist,
                   receiverVars, listenerVars, outsideTransfer>>

\* Connection::connect failed: Unknown is reported and the error returned.
connect_err ==
    /\ s_pc = "connect"
    /\ \E error \in {"FailedToGetConnectionDetails", "FailedToGetBleDetails"} :
          s_result' = Some(error)
    /\ s_log' = update_progress(s_payload.val.delegate, s_log, <<[s |-> "Unknown"]>>)
    /\ s_pc' = "done"
    /\ UNCHANGED <<s_payload, s_written, s_resp, s_sent, s_fault, s2r, r2s,
                   r2s_hist, receiverVars, listenerVars, outsideTransfer>>

\* Mutant: the response is not looked at.
ResponseAccepted_Always(response) == TRUE

\* send_files: `if !response.accepted`, negated.
ResponseAccepted(response) == response.accepted

\* send_files: the TransferRequestResponse arrives.
recv_response ==
    /\ s_pc = "await_response"
    /\ r2s # <<>>
    /\ r2s' = Tail(r2s)
    /\ s_resp' = Some(Head(r2s))
    /\ IF ResponseAccepted(Head(r2s))
       THEN /\ s_log' = update_progress(s_payload.val.delegate, s_log,
                           <<[s |-> "Transferring", progress |-> <<0, 1>>]>>)
            /\ s_pc' = "stream"
            /\ s_result' = s_result
       ELSE /\ s_log' = update_progress(s_payload.val.delegate, s_log,
                           <<[s |-> "Declined"]>>)
            /\ s_pc' = "done"
            /\ s_result' = Some("Declined")
    /\ UNCHANGED <<s_payload, s_written, s_sent, s_fault, s2r, r2s_hist,
                   receiverVars, listenerVars, outsideTransfer>>

\* What one turn of the copy loop meets at the stream: the chunk is written,
\* write returns 0 (a failed read of tmp_file ends the loop the same way), or
\* write returns an error.
CopyResults == {"Ok", "WriteZero", "WriteErr"}

\* send_files: one turn of the loop that copies tmp_file to the stream, and
\* the end of send_files when the loop is left. `expect` panics on a write
\* error: send_to unwinds and the stream is dropped.
write_chunk ==
    /\ s_pc = "stream"
    /\ \E io \in CopyResults :
          LET p == s_payload.val
              eof == s_written >= Len(p.tmp_file)
          IN  CASE ~eof /\ io = "Ok" ->
                    /\ s2r' = Append(s2r, [kind |-> "Block",
                                           block |-> p.tmp_file[s_written + 1]])
                    /\ s_sent' = Append(s_sent, "Block")
                    /\ s_written' = s_written + 1
                    /\ s_log' = update_progress(p.delegate, s_log,
                                   <<[s |-> "Transferring",
                                      progress |-> <<s_written + 1, p.file_size>>]>>)
                    /\ UNCHANGED <<s_pc, s_result, s_fault>>
               [] ~eof /\ io = "WriteErr" ->
                    /\ s_fault' = "WriteErr"
                    /\ s_result' = Some("panic")
                    /\ s_pc' = "done"
                    /\ UNCHANGED <<s2r, s_sent, s_written, s_log>>
               [] eof \/ io = "WriteZero" ->
                    /\ s_fault' = IF eof THEN "None" ELSE "WriteZero"
                    /\ s_log' = update_progress(p.delegate, s_log,
                                   <<[s |-> IF s_written < p.file_size
                                            THEN "Cancelled"
                                            ELSE "Finished"]>>)
                    /\ s_result' = Some("Ok")
                    /\ s_pc' = "done"
                    /\ UNCHANGED <<s2r, s_sent, s_written>>
    /\ UNCHANGED <<s_payload, s_resp, r2s, r2s_hist, receiverVars, listenerVars,
                   outsideTransfer>>

\* InternalNearbyServer::request_download past its dial, as the other kind of
\* client a listener meets: one ConvenienceDownloadRequest is sent.
request_download_send ==
    /\ s_pc = "idle"
    /\ \E id \in ShareIds :
          /\ s_payload' = Some([kind |-> "download", share_id |-> id,
                                delegate |-> FALSE])
          /\ s2r' = Append(s2r, [kind |-> "Request",
                                 request |-> ConvenienceDownloadRequest(id)])
    /\ s_sent' = Append(s_sent, "Request")
    /\ s_result' = Some("Ok")
    /\ s_pc' = "done"
    /\ UNCHANGED <<s_written, s_resp, s_log, s_fault, r2s, r2s_hist, receiverVars,
                   listenerVars, outsideTransfer>>

\* Mutant: no Request is handed to the delegate.
Delivers_Never(request_type) == FALSE

\* The listener's test of the Request it read.
Delivers(request_type) == request_type = "ShareRequest"

\* The listener (start_loop / process_incoming_connection) on one accepted
\* connection: it reads one Request and, for a ShareRequest, hands a
\* ConnectionRequest on the connection's stream to the delegate.
receive_request ==
    /\ l_reads = <<>>
    /\ ~request.some
    /\ s2r # <<>>
    /\ Head(s2r).kind = "Request"
    /\ l_reads' = Append(l_reads, Head(s2r).request.type)
    /\ IF Delivers(Head(s2r).request.type)
       THEN /\ request' = Some(Head(s2r).request)
            /\ l_delivered' = l_delivered + 1
       ELSE /\ request' = request
            /\ l_delivered' = l_delivered
    /\ s2r' = Tail(s2r)
    /\ UNCHANGED <<senderVars, r2s, r2s_hist, should_cancel, r_delegate,
                   connection, t_pc, n_calls, t_ret, untar, untar_started, r_log,
                   close_calls, n_returned, outsideTransfer>>

\* ConnectionRequest::get_intent_type
get_intent_type == request.val.intent.kind

\* ConnectionRequest::set_progress_delegate, called by the application before
\* it disposes of the request.
set_progress_delegate ==
    /\ request.some
    /\ n_calls = 0
    /\ ~r_delegate
    /\ r_delegate' = TRUE
    /\ UNCHANGED <<senderVars, s2r, r2s, r2s_hist, request, should_cancel,
                   connection, t_pc, n_calls, t_ret, untar, untar_started, r_log,
                   close_calls, n_returned, listenerVars, outsideTransfer>>

\* ConnectionRequest::cancel
cancel ==
    /\ request.some
    /\ ~should_cancel
    /\ should_cancel' = TRUE
    /\ UNCHANGED <<senderVars, s2r, r2s, r2s_hist, request, r_delegate,
                   connection, t_pc, n_calls, t_ret, untar, untar_started, r_log,
                   close_calls, n_returned, listenerVars, outsideTransfer>>

\* ConnectionRequest::update_progress
cr_update_progress(log, new_state) ==
    IF r_delegate THEN Append(log, new_state) ELSE log

\* A thread may call accept or decline on the delivered ConnectionRequest.
CanCall(t) ==
    /\ request.some
    /\ t_pc[t] = "idle"
    /\ n_calls < MaxCalls

\* Mutant: decline closes without answering.
DeclineIo_CloseOnly(intent_type) == <<[op |-> "close"]>>

\* What decline does to the stream, in order.
DeclineIo(intent_type) ==
    IF intent_type = "Clipboard"
    THEN <<[op |-> "close"]>>
    ELSE <<[op |-> "send", accepted |-> FALSE], [op |-> "close"]>>

IoResponses(io) ==
    LET sends == SelectSeq(io, LAMBDA o : o.op = "send")
    IN  [i \in 1..Len(sends) |-> [accepted |-> sends[i].accepted]]

IoCloses(io) == Len(SelectSeq(io, LAMBDA o : o.op = "close"))

\* ConnectionRequest::decline, the whole call (it waits for the mutex).
decline(t) ==
    /\ CanCall(t)
    /\ connection = "free"
    /\ LET io == DeclineIo(get_intent_type)
       IN  /\ r2s' = r2s \o IoResponses(io)
           /\ r2s_hist' = r2s_hist \o IoResponses(io)
           /\ close_calls' = close_calls + IoCloses(io)
           /\ t_ret' = [t_ret EXCEPT ![t] = [op |-> "decline", io |-> io]]
    /\ n_calls' = n_calls + 1
    /\ n_returned' = n_returned + 1
    /\ UNCHANGED <<senderVars, s2r, request, should_cancel, r_delegate,
                   connection, t_pc, untar, untar_started, r_log, listenerVars, outsideTransfer>>

\* ConnectionRequest::accept, from the call to the wait for the mutex: a
\* clipboard request is closed and answered at once, a file request reports
\* Handshake.
accept(t) ==
    /\ CanCall(t)
    /\ n_calls' = n_calls + 1
    /\ IF get_intent_type = "Clipboard"
       THEN /\ connection = "free"
            /\ close_calls' = close_calls + 1
            /\ t_ret' = [t_ret EXCEPT ![t] =
                            [op |-> "accept", result |-> Some(0),
                             terminal |-> "None", cancelled |-> FALSE]]
            /\ n_returned' = n_returned + 1
            /\ UNCHANGED <<t_pc, r_log>>
       ELSE /\ r_log' = cr_update_progress(r_log, [s |-> "Handshake"])
            /\ t_pc' = [t_pc EXCEPT ![t] = "accept_lock"]
            /\ UNCHANGED <<close_calls, t_ret, n_returned>>
    /\ UNCHANGED <<senderVars, s2r, r2s, r2s_hist, request, should_cancel,
                   r_delegate, connection, untar, untar_started, listenerVars, outsideTransfer>>

\* accept: the mutex is taken, the response sent, untar_stream entered.
accept_send(t) ==
    /\ t_pc[t] = "accept_lock"
    /\ connection = "free"
    /\ connection' = t
    /\ r2s' = Append(r2s, [accepted |-> TRUE])
    /\ r2s_hist' = Append(r2s_hist, [accepted |-> TRUE])
    /\ untar' = NoUntar
    /\ untar_started' = untar_started + 1
    /\ t_pc' = [t_pc EXCEPT ![t] = "untar_next"]
    /\ UNCHANGED <<senderVars, s2r, request, should_cancel, r_delegate, n_calls,
                   t_ret, r_log, close_calls, n_returned, listenerVars, outsideTransfer>>

\* untar_stream's progress closure: bytes_read / total_bytes, at most 0.999
\* (in thousandths), reported when total_bytes > 0.
ReceivingProgress(log, bytes_read, total_bytes) ==
    IF total_bytes > 0
    THEN LET frac == (bytes_read * 1000) \div total_bytes
         IN  cr_update_progress(log, [s |-> "Receiving",
                                      progress |-> IF frac > 999 THEN 999 ELSE frac])
    ELSE log

\* The sender's end of the stream is gone and nothing is left to read.
AtEof == s2r = <<>> /\ s_pc = "done"

\* untar_stream returns `outcome`; whether cancel was set by then is kept.
UntarReturns(t, outcome) ==
    /\ untar' = [untar EXCEPT !.outcome = outcome, !.cancelled = should_cancel]
    /\ t_pc' = [t_pc EXCEPT ![t] = "handle_file"]

\* untar_stream: the entries iterator reads the next header through
\* ProgressReader::read.
untar_next(t) ==
    /\ t_pc[t] = "untar_next"
    /\ \/ /\ should_cancel
          /\ untar' = [untar EXCEPT !.entry_result = "Err"]
          /\ t_pc' = [t_pc EXCEPT ![t] = "untar_entry"]
          /\ UNCHANGED <<s2r, r_log>>
       \/ /\ ~should_cancel
          /\ s2r # <<>>
          /\ s2r' = Tail(s2r)
          /\ r_log' = ReceivingProgress(r_log, untar.read + 1,
                                        request.val.intent.file_size)
          /\ IF Head(s2r).block = "End"
             THEN /\ untar' = [untar EXCEPT !.read = @ + 1, !.outcome = "Ok",
                                            !.cancelled = FALSE]
                  /\ t_pc' = [t_pc EXCEPT ![t] = "handle_file"]
             ELSE /\ untar' = [untar EXCEPT !.read = @ + 1,
                                            !.entry_result = Head(s2r).block]
                  /\ t_pc' = [t_pc EXCEPT ![t] = "untar_entry"]
       \/ /\ ~should_cancel
          /\ AtEof
          /\ \E read_result \in {"Eof", "Err"} :
                IF read_result = "Eof"
                THEN UntarReturns(t, "Ok")
                ELSE /\ untar' = [untar EXCEPT !.entry_result = "Err"]
                     /\ t_pc' = [t_pc EXCEPT ![t] = "untar_entry"]
          /\ UNCHANGED <<s2r, r_log>>
    /\ UNCHANGED <<senderVars, r2s, r2s_hist, request, should_cancel, r_delegate,
                   connection, n_calls, t_ret, untar_started, close_calls,
                   n_returned, listenerVars, outsideTransfer>>

\* untar_stream: the body of the loop for one item of the iterator.
untar_entry(t) ==
    /\ t_pc[t] = "untar_entry"
    /\ IF should_cancel
       THEN UntarReturns(t, "Ok")
       ELSE IF untar.entry_result = "Err"
       THEN UntarReturns(t, "Err")
       ELSE /\ untar' = [untar EXCEPT !.restored = @ + 1]
            /\ t_pc' = [t_pc EXCEPT ![t] =
                           IF untar.entry_result = "Regular" THEN "untar_unpack"
                                                             ELSE "untar_next"]
    /\ UNCHANGED <<senderVars, s2r, r2s, r2s_hist, request, should_cancel,
                   r_delegate, connection, n_calls, t_ret, untar_started, r_log,
                   close_calls, n_returned, listenerVars, outsideTransfer>>

\* untar_stream: entry.unpack reads the file's data through
\* ProgressReader::read.
untar_unpack(t) ==
    /\ t_pc[t] = "untar_unpack"
    /\ \/ /\ should_cancel
          /\ UntarReturns(t, "Err")
          /\ UNCHANGED <<s2r, r_log>>
       \/ /\ ~should_cancel
          /\ s2r # <<>>
          /\ s2r' = Tail(s2r)
          /\ r_log' = ReceivingProgress(r_log, untar.read + 1,
                                        request.val.intent.file_size)
          /\ untar' = [untar EXCEPT !.read = @ + 1]
          /\ t_pc' = [t_pc EXCEPT ![t] = "untar_next"]
       \/ /\ ~should_cancel
          /\ AtEof
          /\ UntarReturns(t, "Err")
          /\ UNCHANGED <<s2r, r_log>>
    /\ UNCHANGED <<senderVars, r2s, r2s_hist, request, should_cancel, r_delegate,
                   connection, n_calls, t_ret, untar_started, close_calls,
                   n_returned, listenerVars, outsideTransfer>>

\* handle_file: the state reported for untar_stream's result.
TerminalState(outcome) == IF outcome = "Ok" THEN "Finished" ELSE "Cancelled"

\* Mutant: the error arm does not close.
HandleFileCloses_OkOnly(outcome) == IF outcome = "Ok" THEN 1 ELSE 0

\* handle_file: close() calls of the arm taken.
HandleFileCloses(outcome) == 1

\* handle_file after untar_stream returned; accept returns and the mutex guard
\* is dropped.
handle_file(t) ==
    /\ t_pc[t] = "handle_file"
    /\ r_log' = cr_update_progress(r_log, [s |-> TerminalState(untar.outcome)])
    /\ close_calls' = close_calls + HandleFileCloses(untar.outcome)
    /\ t_ret' = [t_ret EXCEPT ![t] =
                    [op |-> "accept",
                     result |-> IF untar.outcome = "Ok" THEN Some(untar.restored)
                                                        ELSE None,
                     terminal |-> TerminalState(untar.outcome),
                     cancelled |-> untar.cancelled]]
    /\ connection' = "free"
    /\ t_pc' = [t_pc EXCEPT ![t] = "idle"]
    /\ n_returned' = n_returned + 1
    /\ UNCHANGED <<senderVars, s2r, r2s, r2s_hist, request, should_cancel,
                   r_delegate, n_calls, untar, untar_started, listenerVars, outsideTransfer>>

NextTransfer ==
    \/ send_to
    \/ connect_ok
    \/ connect_err
    \/ recv_response
    \/ write_chunk
    \/ request_download_send
    \/ receive_request
    \/ set_progress_delegate
    \/ cancel
    \/ \E t \in Threads : decline(t)
    \/ \E t \in Threads : accept(t)
    \/ \E t \in Threads : accept_send(t)
    \/ \E t \in Threads : untar_next(t)
    \/ \E t \in Threads : untar_entry(t)
    \/ \E t \in Threads : untar_unpack(t)
    \/ \E t \in Threads : handle_file(t)

SpecDiscovery == Init /\ [][NextDiscovery]_vars

SpecTransfer == Init /\ [][NextTransfer]_vars

\* ------------------------------------------------------------------------
\* Transfer plane: properties
\* ------------------------------------------------------------------------
IsFileRequest == request.some /\ get_intent_type = "FileTransfer"

IsTerminal(state) == state.s \in {"Finished", "Cancelled"}

\* C1 (as claimed): whatever accept() and decline() calls are made on a
\* file-transfer ConnectionRequest, at most one TransferRequestResponse is
\* written to the stream and untar_stream is started at most once.
C1_ExactlyOnceDisposition ==
    IsFileRequest => (Len(r2s_hist) <= 1 /\ untar_started <= 1)

\* C2: on a file-transfer connection the sender writes the Request first; the
\* receiver writes a TransferRequestResponse only after it has read the
\* Request; the sender writes archive bytes only after it has read a response
\* with accepted = true; the receiver reads archive bytes only after it has
\* written its accepting response.
C2_StrictOrder ==
    (s_payload.some /\ s_payload.val.kind = "files") =>
        /\ \A i \in 1..Len(s_sent) : s_sent[i] = (IF i = 1 THEN "Request" ELSE "Block")
        /\ r2s_hist # <<>> => request.some
        /\ s_written > 0 => (s_resp.some /\ s_resp.val.accepted)
        /\ untar.read > 0 => \E i \in 1..Len(r2s_hist) : r2s_hist[i].accepted
        /\ (\E t \in Threads : t_pc[t] \in {"untar_next", "untar_entry",
                                             "untar_unpack", "handle_file"})
              => \E i \in 1..Len(r2s_hist) : r2s_hist[i].accepted

\* Archive bytes were written by the sender and read by the receiver.
C2_Witness ==
    /\ s_written > 1
    /\ untar.read > 1
    /\ s_resp = Some([accepted |-> TRUE])

\* C3 (as claimed), for a request on which accept() is called once: the
\* delegate sees Handshake, then optionally Receiving updates followed by
\* Extracting, then one terminal state and nothing after it.
C3_ProgressOrder ==
    (r_delegate /\ n_calls <= 1) =>
        \A i \in 1..Len(r_log) :
            /\ (i = 1) <=> (r_log[i].s = "Handshake")
            /\ IsTerminal(r_log[i]) => i = Len(r_log)
            /\ (r_log[i].s = "Receiving" /\ i < Len(r_log))
                  => r_log[i + 1].s \in {"Receiving", "Extracting"}
            /\ r_log[i].s = "Extracting"
                  => (i > 1 /\ r_log[i - 1].s = "Receiving")
            /\ (r_log[i].s = "Extracting" /\ i < Len(r_log))
                  => IsTerminal(r_log[i + 1])

\* C4 (as claimed): when cancel() was called before untar_stream returned,
\* accept() reports Cancelled and returns no restored paths.
C4_CancelReportsCancelled ==
    \A t \in Threads :
        (t_ret[t].op = "accept" /\ t_ret[t].cancelled) =>
            /\ t_ret[t].terminal = "Cancelled"
            /\ (t_ret[t].result.some => t_ret[t].result.val = 0)

OnlineIds == {id \in DeviceIds : recent[id].kind = "info"}

\* C7: after any sequence of parse_discovery_message calls since the last
\* start(), the registry behind get_devices() holds exactly the devices whose
\* most recent message was a DeviceConnectionInfo, one entry per Device.id,
\* and the entry is the most recently received info for the id (with the
\* transport's ble uuid stamped into it).
C7_RegistryIsMostRecentInfo ==
    /\ DOMAIN discovered_devices = OnlineIds
    /\ \A id \in DOMAIN discovered_devices :
          /\ discovered_devices[id] =
                StampBleUuid(recent[id].info, recent[id].ble_uuid)
          /\ discovered_devices[id].device.val.id = id
    /\ get_devices = {recent[id].info.device.val : id \in OnlineIds}
    /\ Cardinality(get_devices) = Cardinality(DOMAIN discovered_devices)

\* A device went offline after it was seen, another was seen and then
\* re-sighted with other contents.
C7_Witness ==
    /\ \E id \in DeviceIds : recent[id].kind = "offline"
    /\ last_call.op = "info"
    /\ last_call.before.some
    /\ last_call.before.val # last_call.info
    /\ Cardinality(get_devices) = 1

\* C8 (as claimed): get_connection_details(device) is the registry's stored
\* info for device.id, None when the device is not in the registry; after an
\* OfflineDeviceId for an id it is None and a dial to the device fails with
\* FailedToGetConnectionDetails.
C8_DetailsFollowRegistry ==
    /\ \A device \in Devices :
          get_connection_details(device) = MapGet(discovered_devices, device.id)
    /\ \A device \in Devices :
          recent[device.id].kind = "offline" => ~get_connection_details(device).some
    /\ (last_call.op = "connect" /\ recent[last_call.id].kind = "offline")
          => last_call.result = "FailedToGetConnectionDetails"

\* C9: a DeviceConnectionInfo message fires device_added, once on every
\* registered observer, iff the id is not in the registry or the stored info
\* differs from the incoming one (as stamped with the transport's ble uuid);
\* an identical message fires nothing and leaves the registry unchanged.
C9_DeviceAddedIffNewOrChanged ==
    last_call.op = "info" =>
        LET changed == IF last_call.before.some
                       THEN last_call.before.val # last_call.info
                       ELSE TRUE
        IN  /\ \A d \in last_call.delegates :
                  /\ delegate_calls[d].added =
                        IF changed THEN <<last_call.device>> ELSE <<>>
                  /\ delegate_calls[d].removed = <<>>
            /\ \A d \in DelegateIds \ last_call.delegates :
                  delegate_calls[d] = [added |-> <<>>, removed |-> <<>>]
            /\ ~changed => discovered_devices = last_call.registry_before

\* An identical re-sighting with two observers registered.
C9_Witness ==
    /\ last_call.op = "info"
    /\ last_call.before = Some(last_call.info)
    /\ last_call.delegates = DelegateIds
    /\ \A d \in DelegateIds : delegate_calls[d].added = <<>>

\* C10 (as claimed): device_removed fires exactly once per OfflineDeviceId
\* whose id was in the registry, and not at all when the id was not.
C10_RemovedOnlyIfPresent ==
    last_call.op = "offline" =>
        \A d \in last_call.delegates :
            delegate_calls[d].removed =
                IF last_call.before.some THEN <<last_call.id>> ELSE <<>>

\* C10 (amended): every OfflineDeviceId message fires device_removed exactly
\* once on every registered observer, whether or not the id was in the
\* registry, and fires nothing else.
C10_RemovedOncePerOffline ==
    last_call.op = "offline" =>
        /\ \A d \in last_call.delegates :
              delegate_calls[d] = [added |-> <<>>, removed |-> <<last_call.id>>]
        /\ \A d \in DelegateIds \ last_call.delegates :
              delegate_calls[d] = [added |-> <<>>, removed |-> <<>>]

\* An OfflineDeviceId for an id that is not in the registry, observers present.
C10_Witness ==
    /\ last_call.op = "offline"
    /\ ~last_call.before.some
    /\ last_call.delegates = DelegateIds
    /\ \A d \in DelegateIds : delegate_calls[d].removed = <<last_call.id>>

\* ------------------------------------------------------------------------
\* The dialer: Connection::connect and the L2CAP rendezvous
\* ------------------------------------------------------------------------
\* Connection::connect calls in one behaviour.
MaxDials == 1

\* Discovery messages handled before and between the dials.
MaxDialMessages == 1

\* bluetooth_l2cap_id values: Uuid::new_v4 gives every connect its own.
ConnectionIds == 1..MaxDials

\* handle_incoming_l2cap_connection calls in one behaviour.
MaxIncoming == 2

\* The bluetooth_l2cap_id of a connect made by another Connection of the
\* process (every ShareStore dials with its own Connection).
OtherConnectionId == MaxDials + 1

\* Connection ids the platform may hand in: those of the connects and one
\* that no connect ever registered.
IncomingIds == ConnectionIds \cup {OtherConnectionId, 0}

\* What the network lets connect_tcp do once it has tcp details: dial and
\* wrap, or fail at one of the two (a failed address lookup goes the way of a
\* failed dial).
TcpAttempts == {"Ok", "FailedToOpenTcpStream", "FailedToEncryptStream"}

\* Connection::connect_tcp
connect_tcp(connection_details, net) ==
    IF ~connection_details.tcp.some THEN "FailedToGetTcpDetails" ELSE net

\* Mutant: the medium reported is always WiFi.
MediumUpdate_AlwaysWiFi(progress_delegate, medium) ==
    IF progress_delegate THEN <<"WiFi">> ELSE <<>>

\* progress_delegate.progress_changed(ConnectionMediumUpdate { medium })
MediumUpdate(progress_delegate, medium) ==
    IF progress_delegate THEN <<medium>> ELSE <<>>

\* connect returns `result`.
ConnectReturns(result) ==
    /\ c_pc' = "done"
    /\ c_result' = Some(result)

\* A discovery message arrives at the dialing process.
dial_discover ==
    /\ n_messages < MaxDialMessages
    /\ ParseDiscoveryMessage

\* InternalNearbyServer::add_l2_cap_client
add_l2_cap_client ==
    /\ ~ble_l2_cap_client
    /\ ble_l2_cap_client' = TRUE
    /\ UNCHANGED <<L2CAP_CONNECTIONS, c_pc, c_delegate, c_id, c_channel, c_log,
                   c_call, c_result, open_l2cap_calls, n_dials, incomingVars,
                   outsideDial>>

\* Mutant: the L2CapDelegate is looked for before the BLE coordinates.
ConnectOutcome_ClientFirst(details, tcp, client) ==
    IF ~details.some THEN "FailedToGetConnectionDetails"
    ELSE IF tcp = "Ok" THEN "Ok"
    ELSE IF ~client THEN "InternalBleHandlerNotAvailable"
    ELSE IF ~details.val.ble.some THEN "FailedToGetBleDetails"
    ELSE "await"

\* Connection::connect: where the call gets to before `receiver.await`, given
\* the registry lookup, connect_tcp's result and the registered L2CapDelegate.
ConnectOutcome(details, tcp, client) ==
    IF ~details.some THEN "FailedToGetConnectionDetails"
    ELSE IF tcp = "Ok" THEN "Ok"
    ELSE IF ~details.val.ble.some THEN "FailedToGetBleDetails"
    ELSE IF ~client THEN "InternalBleHandlerNotAvailable"
    ELSE "await"

\* Mutant: the Sender is not in the table by the time open_l2cap_connection
\* is invoked.
SenderInserted_AfterOpen(outcome) == outcome = "InternalBleHandlerNotAvailable"

\* `L2CAP_CONNECTIONS...insert(bluetooth_l2cap_id, sender)` stands before the
\* look for the L2CapDelegate and before open_l2cap_connection: the outcomes
\* that leave connect, or reach `receiver.await`, with the Sender inserted.
SenderInserted(outcome) ==
    outcome \in {"InternalBleHandlerNotAvailable", "await"}

\* Connection::connect(device, progress_delegate), from the call to its return
\* or to `receiver.await`.
connect ==
    /\ c_pc \in {"idle", "done"}
    /\ n_dials < MaxDials
    /\ n_dials' = n_dials + 1
    /\ UNCHANGED <<ble_l2_cap_client, incomingVars, outsideDial>>
    /\ \E device \in Devices, progress_delegate \in BOOLEAN, net \in TcpAttempts :
          LET details == get_connection_details(device)
              tcp == IF details.some THEN connect_tcp(details.val, net) ELSE "None"
              outcome == ConnectOutcome(details, tcp, ble_l2_cap_client)
              bluetooth_l2cap_id == n_dials + 1
              sender_inserted == SenderInserted(outcome)
          IN  /\ c_delegate' = progress_delegate
              /\ c_call' = [details |-> details, tcp |-> tcp,
                            client |-> ble_l2_cap_client,
                            registry_written |->
                                DISCOVERED_DEVICES' # DISCOVERED_DEVICES
                                \/ discovered_devices' # discovered_devices]
              /\ L2CAP_CONNECTIONS' =
                    IF sender_inserted
                    THEN L2CAP_CONNECTIONS \cup {bluetooth_l2cap_id}
                    ELSE L2CAP_CONNECTIONS
              /\ c_id' = IF sender_inserted THEN bluetooth_l2cap_id ELSE 0
              /\ c_log' = IF outcome = "Ok"
                          THEN MediumUpdate(progress_delegate, "WiFi")
                          ELSE <<>>
              /\ IF outcome = "await"
                 THEN /\ open_l2cap_calls' =
                            <<[connection_id |-> bluetooth_l2cap_id,
                               peripheral_uuid |-> details.val.ble.val.uuid,
                               psm |-> details.val.ble.val.psm]>>
                      /\ c_channel' = "pending"
                      /\ c_pc' = "await"
                      /\ c_result' = None
                 ELSE /\ open_l2cap_calls' = <<>>
                      /\ c_channel' = "none"
                      /\ ConnectReturns(outcome)

\* Mutant: the Sender stays in the table after it was looked up.
WithoutSender_Keep(connections, connection_id) == connections

\* `L2CAP_CONNECTIONS.write().await.remove(&connection_id)`: the table the
\* removal leaves.
WithoutSender(connections, connection_id) == connections \ {connection_id}

\* handle_incoming_l2cap_connection(connection_id, native_stream), first
\* statement: under the table's write lock the Sender registered under the id
\* is removed; with none found the call ends and the stream is dropped.
handle_incoming_l2cap_connection(connection_id) ==
    /\ n_incoming < MaxIncoming
    /\ n_incoming' = n_incoming + 1
    /\ L2CAP_CONNECTIONS' = WithoutSender(L2CAP_CONNECTIONS, connection_id)
    /\ l2cap_taken' = IF connection_id \in L2CAP_CONNECTIONS
                      THEN l2cap_taken \cup {connection_id}
                      ELSE l2cap_taken
    /\ last_incoming' = [called |-> TRUE, connection_id |-> connection_id,
                         found |-> connection_id \in L2CAP_CONNECTIONS,
                         before |-> L2CAP_CONNECTIONS,
                         after |-> L2CAP_CONNECTIONS',
                         used |-> connection_id \in DOMAIN l2cap_sent]
    /\ UNCHANGED <<ble_l2_cap_client, c_pc, c_delegate, c_id, c_channel, c_log,
                   c_call, c_result, open_l2cap_calls, n_dials, l2cap_sent,
                   outsideDial>>

\* handle_incoming_l2cap_connection, second statement, of a call that found
\* a Sender: `sender.send(native_stream)`. The send fails silently when the
\* Receiver is gone (the connect that registered the Sender has returned).
incoming_send(connection_id) ==
    /\ connection_id \in l2cap_taken
    /\ l2cap_taken' = l2cap_taken \ {connection_id}
    /\ l2cap_sent' = MapInsert(l2cap_sent, connection_id,
                               IF connection_id \in DOMAIN l2cap_sent
                               THEN l2cap_sent[connection_id] + 1
                               ELSE 1)
    /\ c_channel' = IF c_pc = "await" /\ c_id = connection_id /\ c_channel = "pending"
                    THEN "stream"
                    ELSE c_channel
    /\ UNCHANGED <<ble_l2_cap_client, L2CAP_CONNECTIONS, c_pc, c_delegate, c_id,
                   c_log, c_call, c_result, open_l2cap_calls, n_dials,
                   last_incoming, n_incoming, outsideDial>>

\* Connection::connect of another Connection of the process, up to its
\* `receiver.await`: its Sender enters the process-wide table.
other_connect ==
    /\ OtherConnectionId \notin L2CAP_CONNECTIONS
    /\ OtherConnectionId \notin l2cap_taken
    /\ OtherConnectionId \notin DOMAIN l2cap_sent
    /\ L2CAP_CONNECTIONS' = L2CAP_CONNECTIONS \cup {OtherConnectionId}
    /\ UNCHANGED <<ble_l2_cap_client, c_pc, c_delegate, c_id, c_channel, c_log,
                   c_call, c_result, open_l2cap_calls, n_dials, incomingVars,
                   outsideDial>>

\* The Sender of the running connect is dropped without a send, so that
\* `receiver.await` resolves to Err.
sender_dropped ==
    /\ c_pc = "await"
    /\ c_channel = "pending"
    /\ c_id \in L2CAP_CONNECTIONS
    /\ c_channel' = "dropped"
    /\ L2CAP_CONNECTIONS' = L2CAP_CONNECTIONS \ {c_id}
    /\ UNCHANGED <<ble_l2_cap_client, c_pc, c_delegate, c_id, c_log, c_call,
                   c_result, open_l2cap_calls, n_dials, incomingVars, outsideDial>>

\* Connection::connect from `receiver.await` to its return.
connect_resume ==
    /\ c_pc = "await"
    /\ c_channel \in {"stream", "dropped"}
    /\ UNCHANGED <<ble_l2_cap_client, L2CAP_CONNECTIONS, c_delegate, c_id,
                   c_channel, open_l2cap_calls, n_dials, incomingVars, outsideDial>>
    /\ IF c_channel = "dropped"
       THEN /\ ConnectReturns("FailedToEstablishBleConnection")
            /\ c_log' = c_log
       ELSE \E encrypted \in BOOLEAN :
              IF encrypted
              THEN /\ ConnectReturns("Ok")
                   /\ c_log' = c_log \o MediumUpdate(c_delegate, "BLE")
              ELSE /\ ConnectReturns("FailedToEncryptStream")
                   /\ c_log' = c_log
    /\ c_call' = [c_call EXCEPT !.registry_written =
                      @ \/ DISCOVERED_DEVICES' # DISCOVERED_DEVICES
                        \/ discovered_devices' # discovered_devices]

NextDial ==
    \/ dial_discover
    \/ add_l2_cap_client
    \/ connect
    \/ \E connection_id \in L2CAP_CONNECTIONS :
          handle_incoming_l2cap_connection(connection_id)
    \/ \E connection_id \in ConnectionIds : incoming_send(connection_id)
    \/ sender_dropped
    \/ connect_resume

SpecDial == Init /\ [][NextDial]_vars

\* The sightings of a peer that can be reached over BLE.
BleSightings ==
    {m \in DiscoveryMessages :
        /\ m.kind = "info"
        /\ m.info.device = Some(MyDevice)
        /\ m.info.ble.some}

\* Such a sighting arrives at the dialing process.
rendezvous_discover ==
    /\ n_messages < MaxDialMessages
    /\ \E msg \in BleSightings : parse_discovery_message(msg, None)

\* The rendezvous of dials and deliveries: the platform hands in streams under
\* any connection id, at any time, and another Connection dials as well.
NextRendezvous ==
    \/ rendezvous_discover
    \/ add_l2_cap_client
    \/ connect
    \/ \E connection_id \in IncomingIds : handle_incoming_l2cap_connection(connection_id)
    \/ \E connection_id \in IncomingIds : incoming_send(connection_id)
    \/ other_connect
    \/ sender_dropped
    \/ connect_resume

SpecRendezvous == Init /\ [][NextRendezvous]_vars

\* The dialer with its task scheduled: once `receiver.await` can resolve, the
\* runtime polls connect again.
SpecDialLive == SpecDial /\ WF_vars(connect_resume)

\* ------------------------------------------------------------------------
\* The dialer: properties
\* ------------------------------------------------------------------------
DialFailures ==
    {"FailedToGetConnectionDetails", "FailedToGetBleDetails",
     "InternalBleHandlerNotAvailable", "FailedToEstablishBleConnection"}

\* What C11 says of the TCP attempt and of the call to the L2CapDelegate: WiFi
\* is reported only by a connect whose TCP attempt succeeded, and such a
\* connect reports it (to a delegate), returns Ok and never calls
\* open_l2cap_connection; open_l2cap_connection is called only after the TCP
\* attempt failed and with BLE coordinates in the stored info; WiFi and BLE
\* are never both reported.
TcpFirst ==
    /\ (\E i \in 1..Len(c_log) : c_log[i] = "WiFi")
          => (c_call.tcp = "Ok" /\ open_l2cap_calls = <<>>)
    /\ (c_pc = "done" /\ c_call.tcp = "Ok")
          => /\ c_result = Some("Ok")
             /\ c_log = (IF c_delegate THEN <<"WiFi">> ELSE <<>>)
             /\ open_l2cap_calls = <<>>
    /\ open_l2cap_calls # <<>>
          => /\ c_call.details.some
             /\ c_call.tcp \notin {"Ok", "None"}
             /\ c_call.details.val.ble.some
             /\ Len(open_l2cap_calls) = 1
    /\ Len(c_log) <= 1

\* C11 (as claimed): TCP is tried first as above, and once the native stream
\* has been delivered through the rendezvous the finished connect has reported
\* ConnectionMediumUpdate{BLE} to its delegate, and never WiFi.
C11_BleReportedOnceDelivered ==
    /\ TcpFirst
    /\ (c_pc = "done" /\ c_channel = "stream")
          => c_log = (IF c_delegate THEN <<"BLE">> ELSE <<>>)

\* C11 (amended): TCP is tried first as above; once the native stream has
\* been delivered through the rendezvous and the TLS-client wrap over it has
\* succeeded, the delegate has been told BLE and never WiFi; when that wrap
\* fails connect returns FailedToEncryptStream and reports no medium.
C11_BleReportedOnceWrapped ==
    /\ TcpFirst
    /\ (c_pc = "done" /\ c_channel = "stream")
          => /\ c_result \in {Some("Ok"), Some("FailedToEncryptStream")}
             /\ c_result = Some("Ok")
                   => c_log = (IF c_delegate THEN <<"BLE">> ELSE <<>>)
             /\ c_result # Some("Ok") => c_log = <<>>

\* A connect with a delegate went through the rendezvous and returned Ok.
C11_Witness ==
    /\ c_pc = "done"
    /\ c_channel = "stream"
    /\ c_result = Some("Ok")
    /\ c_delegate
    /\ c_log = <<"BLE">>
    /\ Len(open_l2cap_calls) = 1

\* C12: a finished connect returned FailedToGetConnectionDetails iff the
\* device id was not in the registry; FailedToGetBleDetails iff the TCP
\* attempt failed and the stored info has no BLE coordinates;
\* InternalBleHandlerNotAvailable iff, past both, no L2CapDelegate was
\* registered; FailedToEstablishBleConnection iff the waiter's Sender was
\* dropped. In these four cases nothing was reported to the delegate, and no
\* step of connect writes the discovery registry.
C12_DialFailures ==
    /\ ~c_call.registry_written
    /\ c_pc = "done" =>
          LET details == c_call.details
              tcp_failed == details.some /\ c_call.tcp # "Ok"
          IN  /\ c_result = Some("FailedToGetConnectionDetails") <=> ~details.some
              /\ c_result = Some("FailedToGetBleDetails")
                    <=> (tcp_failed /\ ~details.val.ble.some)
              /\ c_result = Some("InternalBleHandlerNotAvailable")
                    <=> (tcp_failed /\ details.val.ble.some /\ ~c_call.client)
              /\ c_result = Some("FailedToEstablishBleConnection")
                    <=> c_channel = "dropped"
              /\ (c_result.some /\ c_result.val \in DialFailures)
                    => (c_log = <<>> /\ c_channel # "stream")

\* The TCP attempt to stored tcp details failed, BLE coordinates exist, and
\* connect, given a delegate, found no L2CapDelegate.
C12_Witness ==
    /\ c_pc = "done"
    /\ c_result = Some("InternalBleHandlerNotAvailable")
    /\ c_delegate
    /\ c_call.details.val.tcp.some
    /\ c_log = <<>>

\* ------------------------------------------------------------------------
\* The sender's states and the listener: properties
\* ------------------------------------------------------------------------
\* The states send_to itself reported: s_log without the medium updates that
\* Connection::connect reports to the same delegate.
SendStates == SelectSeq(s_log, LAMBDA e : e.s # "ConnectionMediumUpdate")

IsSend(kind) ==
    s_payload.some /\ s_payload.val.kind = kind /\ s_payload.val.delegate

IsSendTerminal(state) == state.s \in {"Finished", "Cancelled"}

\* C13 (as claimed): for a Files payload the delegate sees Connecting, then
\* after a successful dial Requesting, then Declined (send_to failing with
\* Declined) or Transferring{0.0} followed by Transferring updates and exactly
\* one terminal state, after which nothing is reported; a send_to that is over
\* after an accepting response has reported its terminal state.
C13_SendFilesOrder ==
    IsSend("files") =>
        LET f == SendStates
        IN  /\ \A i \in 1..Len(f) :
                  /\ (i = 1) <=> (f[i].s = "Connecting")
                  /\ f[i].s \in {"Requesting", "Unknown"} => i = 2
                  /\ f[i].s = "Unknown" => i = Len(f)
                  /\ f[i].s = "Declined"
                        => (i = 3 /\ i = Len(f) /\ s_result = Some("Declined"))
                  /\ f[i].s = "Transferring"
                        => /\ i >= 3
                           /\ f[i - 1].s \in {"Requesting", "Transferring"}
                           /\ (i = 3 => f[i].progress = <<0, 1>>)
                  /\ IsSendTerminal(f[i])
                        => (i = Len(f) /\ f[i - 1].s = "Transferring")
            /\ (s_pc = "done" /\ s_resp.some /\ s_resp.val.accepted)
                  => (f # <<>> /\ IsSendTerminal(f[Len(f)]))

\* The text send_to of a session has passed on its way, as a Request in
\* flight or as the Request the listener read.
RequestsOnTheWay ==
    {s2r[i].request : i \in 1..Len(s2r)}
    \cup (IF request.some THEN {request.val} ELSE {})

\* What C14 says of the traffic of a Text send_to: at most one Request is
\* written, it carries a Clipboard intent with the session's text, and no
\* response is ever read.
SendTextTraffic ==
    (s_payload.some /\ s_payload.val.kind = "text") =>
        /\ s_resp = None
        /\ s_written = 0
        /\ s_sent = (IF s_pc = "done" /\ s_result = Some("Ok")
                     THEN <<"Request">> ELSE <<>>)
        /\ \A r \in RequestsOnTheWay :
              /\ r.type = "ShareRequest"
              /\ r.intent = [kind |-> "Clipboard",
                             clipboard_content |-> s_payload.val.clipboard]

C15_WriteErrorReportsCancelled ==
    (s_pc = "done" /\ s_fault = "WriteErr") =>
        /\ s_result = Some("Ok")
        /\ s_payload.val.delegate =>
              (s_log # <<>> /\ s_log[Len(s_log)].s = "Cancelled")
        /\ \A i \in 1..Len(s_log) : s_log[i].s # "Finished"

\* C17: the listener reads at most one Request from a connection; after a
\* ShareRequest the delegate has been handed exactly one ConnectionRequest,
\* which carries that Request; after a ConvenienceDownloadRequest the delegate
\* has been handed nothing and nothing has been written back; responses are
\* written only through a ConnectionRequest that was handed over.
C17_OneRequestPerConnection ==
    /\ Len(l_reads) <= 1
    /\ l_reads = <<>> => (l_delivered = 0 /\ ~request.some)
    /\ l_reads = <<"ShareRequest">>
          => /\ l_delivered = 1
             /\ request.some
             /\ request.val.type = "ShareRequest"
    /\ l_reads = <<"ConvenienceDownloadRequest">>
          => /\ l_delivered = 0
             /\ ~request.some
             /\ r2s_hist = <<>>
             /\ r2s = <<>>
    /\ r2s_hist # <<>> => l_delivered = 1

\* The listener has read a ConvenienceDownloadRequest.
C17_Witness ==
    /\ l_reads = <<"ConvenienceDownloadRequest">>
    /\ s_pc = "done"
    /\ s2r = <<>>

-----------------------------------------------------------------------------
\* The share plane: InternalNearbyServer's TCP binding and the ShareStore
\* that share_text and share_files hand out.

\* share_text / share_files calls explored.
MaxShares == 2

\* send_to calls explored on one session.
MaxSends == 2

\* Ports new_tcp_server may bind, and addresses get_current_ip may return.
TcpPorts == {4251, 8080}

Ips == {"ip1"}

DigitChars == <<"0", "1", "2", "3", "4", "5", "6", "7", "8", "9">>

\* Display of an unsigned integer, as format! writes it: a sequence of
\* decimal digits, most significant first.
RECURSIVE ToDecimal(_)
ToDecimal(n) ==
    IF n < 10 THEN <<DigitChars[n + 1]>>
    ELSE ToDecimal(n \div 10) \o <<DigitChars[(n % 10) + 1]>>

\* generate_secure_base64_token: a token no earlier session has.
RequestId(n) == <<"r">> \o ToDecimal(n)

Pair(key, value) == [key |-> key, value |-> value]

\* A link text that is a URL: its host and its query pairs in order. Values are
\* sequences of characters.
Url(host, query) == [url |-> TRUE, host |-> host, query |-> query]

\* A link text that is no URL.
NotAUrl == [url |-> FALSE]

\* The format! of generate_link.
Link(request_id, ip, port, device_id) ==
    Url("s.intershare.app",
        <<Pair("i", request_id), Pair("ip", <<ip>>), Pair("p", ToDecimal(port)),
          Pair("d", <<device_id>>)>>)

\* ShareStore::generate_link.
generate_link(share_store) ==
    IF ~share_store.allow_convenience_share THEN None
    ELSE IF ~share_store.device_connection_info.device.some THEN None
    ELSE IF ~share_store.device_connection_info.tcp.some THEN None
    ELSE Some(Link(share_store.request_id,
                   share_store.device_connection_info.tcp.val.hostname,
                   share_store.device_connection_info.tcp.val.port,
                   share_store.device_connection_info.device.val.id))

\* ShareStore::new as share_text and share_files call it: the connection info
\* is the value the server holds at that moment.
ShareStore(file_paths, clipboard, allow_convenience_share, info) ==
    [request_id |-> RequestId(n_shares + 1),
     file_paths |-> file_paths,
     clipboard |-> clipboard,
     allow_convenience_share |-> allow_convenience_share,
     device_connection_info |-> info]

\* InternalNearbyServer::start, for a server constructed with a delegate:
\* `bound` is what new_tcp_server returned, `ip` what get_current_ip returned.
\* On windows start_windows_server then sets up the GATT service, whose read
\* handler is built with the connection info of that moment, and advertises
\* it until stop().
server_start ==
    /\ \E bound \in {None} \cup {Some(port) : port \in TcpPorts},
          ip \in {None} \cup {Some(a) : a \in Ips} :
          /\ IF ~tcp_server.some /\ bound.some /\ ip.some
             THEN /\ tcp_server' = bound
                  /\ own_connection_info' =
                        [own_connection_info EXCEPT
                           !.tcp = Some([hostname |-> ip.val, port |-> bound.val])]
             ELSE UNCHANGED <<tcp_server, own_connection_info>>
          /\ advertise' = TRUE
          /\ gatt_characteristic' = Some(own_connection_info')
    /\ UNCHANGED <<current_share_store, tmp_file, generate_link_call, send_to_call,
                   session_terminal, n_shares, n_sends, read_call>>
    /\ UNCHANGED outsideShare

\* InternalNearbyServer::stop: the binding is dropped, the connection info
\* keeps its tcp entry.
server_stop ==
    /\ tcp_server' = None
    /\ advertise' = FALSE
    /\ UNCHANGED <<own_connection_info, current_share_store, tmp_file,
                   generate_link_call, send_to_call, session_terminal, n_shares,
                   n_sends, gatt_characteristic, read_call>>
    /\ UNCHANGED outsideShare

\* InternalNearbyServer::share_text.
share_text ==
    /\ n_shares < MaxShares
    /\ \E text \in Texts, allow_convenience_share \in BOOLEAN :
          current_share_store' =
              Some(ShareStore(None, Some(text), allow_convenience_share,
                              own_connection_info))
    /\ tmp_file' = FALSE
    /\ generate_link_call' = NoCall
    /\ send_to_call' = NoCall
    /\ session_terminal' = <<>>
    /\ n_shares' = n_shares + 1
    /\ n_sends' = 0
    /\ UNCHANGED <<tcp_server, own_connection_info>>
    /\ UNCHANGED <<advertVars, outsideShare>>

\* InternalNearbyServer::share_files. The archive handles the store is built
\* with are prepared outside this function: present or absent.
share_files ==
    /\ n_shares < MaxShares
    /\ \E allow_convenience_share \in BOOLEAN, archived \in BOOLEAN :
          /\ current_share_store' =
                Some(ShareStore(Some("paths"), None, allow_convenience_share,
                                own_connection_info))
          /\ tmp_file' = archived
    /\ generate_link_call' = NoCall
    /\ send_to_call' = NoCall
    /\ session_terminal' = <<>>
    /\ n_shares' = n_shares + 1
    /\ n_sends' = 0
    /\ UNCHANGED <<tcp_server, own_connection_info>>
    /\ UNCHANGED <<advertVars, outsideShare>>

\* A generate_link call on the current session, with the server's binding at
\* the time of the call.
session_generate_link ==
    /\ current_share_store.some
    /\ generate_link_call' =
          [called |-> TRUE,
           link |-> generate_link(current_share_store.val),
           tcp_server |-> tcp_server,
           own_connection_info |-> own_connection_info]
    /\ UNCHANGED <<tcp_server, own_connection_info, current_share_store, tmp_file,
                   send_to_call, session_terminal, n_shares, n_sends>>
    /\ UNCHANGED <<advertVars, outsideShare>>

\* How one send_to may go once it dials: the dial fails, or the run ends in
\* the named state. A text session reads no response and streams nothing.
SendOutcomes(share_store) ==
    IF ~share_store.file_paths.some
    THEN {"ConnectFailed", "Finished"}
    ELSE {"ConnectFailed", "Declined", "Finished", "Cancelled"}

\* ShareStore::send_to as a whole: whether it dialed, whether it put its
\* Request on the stream, and the last state it reported.
SendTo(share_store, has_tmp_file, outcome) ==
    IF share_store.file_paths.some /\ ~has_tmp_file
    THEN [dialed |-> FALSE, transmitted |-> FALSE, state |-> "None",
          result |-> "NoFilesProvided"]
    ELSE IF outcome = "ConnectFailed"
    THEN [dialed |-> TRUE, transmitted |-> FALSE, state |-> "Unknown",
          result |-> "FailedToGetConnectionDetails"]
    ELSE [dialed |-> TRUE, transmitted |-> TRUE, state |-> outcome,
          result |-> "Ok"]

\* The states after which a session is over.
SessionEnds == {"Finished", "Cancelled", "Declined"}

\* A send_to call on the current session.
session_send_to ==
    /\ current_share_store.some
    /\ n_sends < MaxSends
    /\ \E outcome \in SendOutcomes(current_share_store.val) :
          LET run == SendTo(current_share_store.val, tmp_file, outcome)
          IN  /\ send_to_call' = [called |-> TRUE, run |-> run,
                                  terminal_before |-> session_terminal]
              /\ session_terminal' =
                    IF run.state \in SessionEnds
                    THEN Append(session_terminal, run.state)
                    ELSE session_terminal
    /\ n_sends' = n_sends + 1
    /\ UNCHANGED <<tcp_server, own_connection_info, current_share_store, tmp_file,
                   generate_link_call, n_shares>>
    /\ UNCHANGED <<advertVars, outsideShare>>

\* ShareStore::close: the temporary file is taken, None is left behind.
session_close ==
    /\ current_share_store.some
    /\ tmp_file' = FALSE
    /\ UNCHANGED <<tcp_server, own_connection_info, current_share_store,
                   generate_link_call, send_to_call, session_terminal, n_shares,
                   n_sends>>
    /\ UNCHANGED <<advertVars, outsideShare>>

NextShare ==
    \/ server_start
    \/ server_stop
    \/ share_text
    \/ share_files
    \/ session_generate_link
    \/ session_send_to
    \/ session_close

SpecShare == Init /\ [][NextShare]_vars

\* C16: once the session's sender has entered Finished, Cancelled or Declined,
\* a later send_to on the same session neither dials nor transmits.
C16_SessionNotReused ==
    (send_to_call.called /\ send_to_call.terminal_before # <<>>)
        => (~send_to_call.run.dialed /\ ~send_to_call.run.transmitted)

\* C18: generate_link returns a link exactly when the session allows
\* convenience sharing and the server has a TCP binding at the time of the
\* call, and the link carries the session's request id, the server's address
\* and port, and the device id.
C18_LinkIffBinding ==
    generate_link_call.called =>
        LET share_store == current_share_store.val
            expected ==
                IF share_store.allow_convenience_share
                   /\ generate_link_call.tcp_server.some
                THEN Some(Link(share_store.request_id,
                               generate_link_call.own_connection_info.tcp.val.hostname,
                               generate_link_call.tcp_server.val,
                               MyDevice.id))
                ELSE None
        IN  generate_link_call.link = expected


-----------------------------------------------------------------------------
\* The download plane: InternalNearbyServer::request_download.

\* request_download calls explored.
MaxDownloads == 2

Hosts == {"s.intershare.app", "intershare.app"}

DigitValue(c) == CHOOSE d \in 0..9 : DigitChars[d + 1] = c

IsDigit(c) == \E d \in 0..9 : DigitChars[d + 1] = c

\* The digits of u32::MAX and of u16::MAX.
MaxU32Digits == <<4, 2, 9, 4, 9, 6, 7, 2, 9, 5>>

MaxU16Digits == <<6, 5, 5, 3, 5>>

RECURSIVE StripZeros(_)
StripZeros(digits) ==
    IF Len(digits) > 1 /\ Head(digits) = 0 THEN StripZeros(Tail(digits)) ELSE digits

\* a <= b for digit sequences of the same length.
RECURSIVE DigitsLeq(_, _)
DigitsLeq(a, b) ==
    IF a = <<>> THEN TRUE
    ELSE IF Head(a) # Head(b) THEN Head(a) < Head(b)
    ELSE DigitsLeq(Tail(a), Tail(b))

\* The number written by `digits` (no leading zero) is at most the one
\* written by `max`.
AtMost(digits, max) ==
    \/ Len(digits) < Len(max)
    \/ Len(digits) = Len(max) /\ DigitsLeq(digits, max)

\* str::parse::<u32>: an optional '+', then one or more decimal digits whose
\* value fits 32 bits. The value is kept as its digits without leading zeros.
ParseU32(value) ==
    LET unsigned == IF value # <<>> /\ Head(value) = "+" THEN Tail(value) ELSE value
    IN  IF unsigned = <<>> \/ \E k \in 1..Len(unsigned) : ~IsDigit(unsigned[k])
        THEN None
        ELSE LET digits == StripZeros([k \in 1..Len(unsigned) |-> DigitValue(unsigned[k])])
             IN  IF AtMost(digits, MaxU32Digits) THEN Some(digits) ELSE None

\* query_pairs().find(|(key, _)| key == wanted).map(|(_, value)| value)
RECURSIVE FindValue(_, _)
FindValue(query, wanted) ==
    IF query = <<>> THEN None
    ELSE IF Head(query).key = wanted THEN Some(Head(query).value)
    ELSE FindValue(Tail(query), wanted)

\* Mutant: empty values are let through.
NonEmpty_Keep(found) == found

\* .filter(|val| !val.is_empty())
NonEmpty(found) ==
    IF found.some /\ found.val # <<>> THEN found ELSE None

\* The query of a link: each of i, ip and p is absent, empty or has a value,
\* and a second i pair may follow.
QueryOf(i, ip, p, more) ==
    (IF i.some THEN <<Pair("i", i.val)>> ELSE <<>>)
    \o (IF ip.some THEN <<Pair("ip", ip.val)>> ELSE <<>>)
    \o (IF p.some THEN <<Pair("p", p.val)>> ELSE <<>>)
    \o more

PortTexts ==
    {<<>>, <<"8", "0">>, <<"0", "8", "0">>, <<"+", "8", "0">>, <<"-", "1">>, <<"x">>,
     <<"6", "5", "5", "3", "6">>, <<"4", "2", "9", "4", "9", "6", "7", "2", "9", "6">>}

\* Link texts handed to request_download.
Links ==
    {NotAUrl}
    \cup {Url(host, QueryOf(Some(<<"i1">>), Some(<<"ip1">>), Some(<<"8", "0">>), <<>>)) :
            host \in Hosts}
    \cup {Url("s.intershare.app", QueryOf(i, ip, p, more)) :
            i \in {None, Some(<<>>), Some(<<"i1">>)},
            ip \in {None, Some(<<>>), Some(<<"ip1">>)},
            p \in {None} \cup {Some(text) : text \in PortTexts},
            more \in {<<>>, <<Pair("i", <<"i2">>)>>}}

\* connect_tcp on the endpoint of a link: to_socket_addrs refuses a port
\* above u16::MAX, otherwise the network decides.
DialEndpoint(hostname, port, net) ==
    IF ~AtMost(port, MaxU16Digits) THEN "FailedToGetSocketAddress"
    ELSE connect_tcp([device |-> None,
                      tcp |-> Some([hostname |-> hostname, port |-> port]),
                      ble |-> None], net)

NotDialed(result) ==
    [result |-> result, dial |-> None, sent |-> <<>>, record |-> None]

\* InternalNearbyServer::request_download as a whole: what it returns, the
\* outcome of its dial if it dialed, the Requests it handed to the stream and
\* the id it stored.
RequestDownload(link, net) ==
    IF ~link.url THEN NotDialed("NotAValidLink")
    ELSE IF link.host # "s.intershare.app" THEN NotDialed("NotAValidLink")
    ELSE LET id == NonEmpty(FindValue(link.query, "i"))
             ip == NonEmpty(FindValue(link.query, "ip"))
             p == NonEmpty(FindValue(link.query, "p"))
         IN  IF ~id.some THEN NotDialed("NotAValidLink")
             ELSE IF ~ip.some THEN NotDialed("NotAValidLink")
             ELSE IF ~p.some THEN NotDialed("NotAValidLink")
             ELSE IF ~ParseU32(p.val).some THEN NotDialed("NotAValidLink")
             ELSE LET dial == DialEndpoint(ip.val, ParseU32(p.val).val, net)
                  IN  IF dial # "Ok"
                      THEN [result |-> "FailedToConnect", dial |-> Some(dial),
                            sent |-> <<>>, record |-> None]
                      ELSE [result |-> "Ok", dial |-> Some(dial),
                            sent |-> <<ConvenienceDownloadRequest(id.val)>>,
                            record |-> id]

\* A request_download call. Whether the Request reaches the peer does not
\* change what the function returns or stores.
request_download ==
    /\ n_downloads < MaxDownloads
    /\ \E link \in Links, net \in TcpAttempts, delivered \in BOOLEAN :
          LET run == RequestDownload(link, net)
          IN  /\ delivered \/ run.sent = <<>>
              /\ requested_download_id' =
                    IF run.record.some THEN run.record ELSE requested_download_id
              /\ request_download_call' =
                    [called |-> TRUE, link |-> link, run |-> run,
                     delivered |-> delivered /\ run.sent # <<>>,
                     before |-> requested_download_id]
    /\ n_downloads' = n_downloads + 1
    /\ UNCHANGED outsideDownload

NextDownload == request_download

SpecDownload == Init /\ [][NextDownload]_vars

\* The value of a query key: that of its first pair.
KeyMissingOrEmpty(query, key) ==
    \/ \A k \in 1..Len(query) : query[k].key # key
    \/ \E k \in 1..Len(query) :
          /\ query[k].key = key
          /\ \A j \in 1..(k - 1) : query[j].key # key
          /\ query[k].value = <<>>

\* The links request_download must refuse.
Refused(link) ==
    \/ ~link.url
    \/ link.host # "s.intershare.app"
    \/ \E key \in {"i", "ip", "p"} : KeyMissingOrEmpty(link.query, key)
    \/ ~ParseU32(FindValue(link.query, "p").val).some

-----------------------------------------------------------------------------
\* The extraction plane: the paths untar_stream writes to. A path is the
\* sequence of its segments; dest_dir is absolute.

\* Archive entries explored.
MaxTarEntries == 2

Platforms == {"unix", "windows"}

PathEntryTypes == {"Regular", "Directory", "Symlink"}

\* Declared paths of archive entries, split at the separator: an empty first
\* segment is a leading separator, "C:" a drive prefix.
RawPaths ==
    {<<>>, <<".">>, <<"..">>, <<"a">>, <<"a", "..">>, <<"a", "..", "..", "b">>,
     <<"", "a">>, <<"a", ".", "b">>, <<"C:", "", "a">>, <<"C:">>, <<"a.txt">>}

\* The declared paths met on a platform. Elsewhere than on windows a drive
\* prefix is a name like any other, for which "a" stands.
DeclaredPaths(os) ==
    {raw \in RawPaths : (raw # <<>> /\ Head(raw) = "C:") => os = "windows"}

\* What may be in the destination directory beforehand.
Existing ==
    {[files |-> {}, dirs |-> {}],
     [files |-> {dest_dir \o <<"a.txt">>, dest_dir \o <<"a (1).txt">>},
      dirs |-> {dest_dir \o <<"a">>}]}

Component(kind, seg) == [kind |-> kind, seg |-> seg]

\* Path::components after the first segment: empty and "." segments vanish.
RECURSIVE LaterComponents(_)
LaterComponents(segs) ==
    IF segs = <<>> THEN <<>>
    ELSE (IF Head(segs) \in {"", "."} THEN <<>>
          ELSE IF Head(segs) = ".." THEN <<Component("ParentDir", "..")>>
          ELSE <<Component("Normal", Head(segs))>>)
         \o LaterComponents(Tail(segs))

\* Path::components: a drive prefix is one only on windows.
Components(segs, os) ==
    IF segs = <<>> THEN <<>>
    ELSE IF os = "windows" /\ Head(segs) = "C:"
    THEN <<Component("Prefix", "C:")>>
         \o (IF Len(segs) > 1 /\ segs[2] = ""
             THEN <<Component("RootDir", "")>> ELSE <<>>)
         \o LaterComponents(Tail(segs))
    ELSE IF Head(segs) = "" THEN <<Component("RootDir", "")>> \o LaterComponents(Tail(segs))
    ELSE IF Head(segs) = "." THEN <<Component("CurDir", ".")>> \o LaterComponents(Tail(segs))
    ELSE LaterComponents(segs)

SegsOf(components) == [k \in 1..Len(components) |-> components[k].seg]

\* Mutant: ParentDir components are kept too.
sanitize_rel_path_KeepParent(components) ==
    SegsOf(SelectSeq(components, LAMBDA c : c.kind \in {"Normal", "ParentDir"}))

\* sanitize_rel_path
sanitize_rel_path(components) ==
    SegsOf(SelectSeq(components, LAMBDA c : c.kind = "Normal"))

\* Path::exists
Exists(path) == path \in files \cup dirs

\* Path::with_file_name
WithFileName(path, name) == SubSeq(path, 1, Len(path) - 1) \o <<name>>

\* Path::file_stem and Path::extension of the names met here: the name is
\* split at its last dot.
FileStem(name) == IF name = "a.txt" THEN "a" ELSE name

Extension(name) == IF name = "a.txt" THEN "txt" ELSE ""

\* The sibling get_unique_path tries for `counter`.
Numbered(path, counter) ==
    LET name == path[Len(path)]
        numbered == FileStem(name) \o " (" \o ToString(counter) \o ")"
    IN  WithFileName(path, IF Extension(name) = "" THEN numbered
                           ELSE numbered \o "." \o Extension(name))

\* Mutant: the path is used as it is.
get_unique_path_Same(path) == path

\* get_unique_path: the first numbered sibling that does not exist.
get_unique_path(path) ==
    IF ~Exists(path) THEN path
    ELSE LET counters == 1..(Cardinality(files \cup dirs) + 1)
             counter == CHOOSE c \in counters :
                            /\ ~Exists(Numbered(path, c))
                            /\ \A b \in counters : b < c => Exists(Numbered(path, b))
         IN  Numbered(path, counter)

\* Of the path (0) and its numbered siblings (1, 2, ...), those that do not
\* exist.
Free(path) ==
    {c \in 0..(Cardinality(files \cup dirs) + 1) :
        ~Exists(IF c = 0 THEN path ELSE Numbered(path, c))}

\* The path and the directories above it.
Ancestry(path) == {SubSeq(path, 1, k) : k \in 1..Len(path)}

\* fs::create_dir_all fails when a regular file is in the way.
CanCreateDirAll(path) == Ancestry(path) \cap files = {}

\* The path with its ".." segments followed.
RECURSIVE Resolve(_)
Resolve(path) ==
    IF path = <<>> THEN <<>>
    ELSE LET above == Resolve(SubSeq(path, 1, Len(path) - 1))
             seg == path[Len(path)]
         IN  IF seg = ".."
             THEN (IF above = <<>> THEN <<>> ELSE SubSeq(above, 1, Len(above) - 1))
             ELSE Append(above, seg)

IsDescendant(path) ==
    LET resolved == Resolve(path)
    IN  /\ Len(resolved) > Len(dest_dir)
        /\ SubSeq(resolved, 1, Len(dest_dir)) = dest_dir

InOrAt(path) == IsDescendant(path) \/ Resolve(path) = dest_dir

\* Mutant: the loop does not look at the flag.
LoopBreaks_Never(flag) == FALSE

\* The test at the head of the loop body of untar_stream.
LoopBreaks(flag) == flag

\* entry.unpack reads a regular file's data through the ProgressReader, which
\* fails every read once the flag is set; a file without data needs no read.
UnpackReads(entry_type, flag) ==
    IF entry_type = "Regular" /\ flag THEN {"Ok", "Err"} ELSE {"Ok"}

\* untar_stream is called on a destination directory.
untar_stream ==
    /\ u_pc = "idle"
    /\ \E os \in Platforms, existing \in Existing :
          /\ platform' = os
          /\ files' = existing.files
          /\ dirs' = {dest_dir} \cup existing.dirs
          /\ at_start' = {dest_dir} \cup existing.files \cup existing.dirs
    /\ u_pc' = "entries"
    /\ UNCHANGED <<restored_paths, top_level_map, written, last_entry, n_entries,
                   pending, n_others, cancel_flag, at_cancel>>
    /\ UNCHANGED outsideUntar

\* Mutant: the root is looked up as if the call had not met it yet.
RootKnown_Never(map, root_component) == FALSE

\* top_level_map.entry(root_component): whether or_insert_with finds an entry.
RootKnown(map, root_component) == root_component \in DOMAIN map

\* One turn of the loop of untar_stream over archive.entries(), up to the
\* choice of target_path.
untar_next_entry ==
    /\ u_pc = "entries"
    /\ ~LoopBreaks(cancel_flag)
    /\ n_entries < MaxTarEntries
    /\ n_entries' = n_entries + 1
    /\ \E raw_rel_path \in DeclaredPaths(platform), entry_type \in PathEntryTypes :
          LET clean_rel_path == sanitize_rel_path(Components(raw_rel_path, platform))
              skipped == clean_rel_path = <<>> \/ Head(clean_rel_path) = ".."
              root_component == Head(clean_rel_path)
              sub_path == Tail(clean_rel_path)
              top_level_file == sub_path = <<>> /\ entry_type = "Regular"
              known == ~top_level_file /\ RootKnown(top_level_map, root_component)
              candidate == get_unique_path(dest_dir \o <<root_component>>)
              root_target == IF known THEN top_level_map[root_component]
                             ELSE candidate
              target_path == IF top_level_file THEN candidate
                             ELSE root_target \o sub_path
          IN  /\ last_entry' =
                    [called |-> TRUE, raw_rel_path |-> raw_rel_path,
                     entry_type |-> entry_type, skipped |-> skipped,
                     restored_paths |-> restored_paths, written |-> written,
                     mapped |-> IF skipped \/ top_level_file THEN None
                                ELSE Some([root_component |-> root_component,
                                           sub_path |-> sub_path,
                                           target_path |-> target_path,
                                           before |-> top_level_map]),
                     chosen |-> IF skipped \/ known THEN None
                                ELSE Some([wanted |-> dest_dir \o <<root_component>>,
                                           got |-> candidate,
                                           free |-> Free(dest_dir \o <<root_component>>)])]
              /\ IF skipped
                 THEN UNCHANGED <<u_pc, top_level_map, pending>>
                 ELSE /\ top_level_map' =
                            IF top_level_file THEN top_level_map
                            ELSE MapInsert(top_level_map, root_component, root_target)
                      /\ pending' = Some([target_path |-> target_path,
                                          entry_type |-> entry_type])
                      /\ u_pc' = "write"
    /\ UNCHANGED <<platform, files, dirs, restored_paths, written, at_start, n_others,
                   cancel_flag, at_cancel>>
    /\ UNCHANGED outsideUntar

\* The rest of the turn: the parent directories are created, target_path is
\* pushed and the entry is written according to its type.
untar_write ==
    /\ u_pc = "write"
    /\ LET target_path == pending.val.target_path
           entry_type == pending.val.entry_type
           parent == SubSeq(target_path, 1, Len(target_path) - 1)
           made == IF entry_type = "Directory" THEN target_path ELSE parent
       IN  IF ~CanCreateDirAll(parent)
           THEN /\ u_pc' = "failed"
                /\ UNCHANGED <<files, dirs, restored_paths, written>>
           ELSE /\ restored_paths' = Append(restored_paths, target_path)
                /\ IF \/ entry_type = "Directory" /\ ~CanCreateDirAll(target_path)
                      \/ entry_type = "Regular" /\ target_path \in dirs
                   THEN /\ u_pc' = "failed"
                        /\ dirs' = dirs \cup Ancestry(parent)
                        /\ written' = written \cup (Ancestry(parent) \ dirs)
                        /\ files' = files
                   ELSE /\ \E read \in UnpackReads(entry_type, cancel_flag) :
                              u_pc' = IF read = "Ok" THEN "entries" ELSE "failed"
                        /\ dirs' = dirs \cup Ancestry(made)
                        /\ files' = IF entry_type = "Regular"
                                    THEN files \cup {target_path}
                                    ELSE files
                        /\ written' =
                              written \cup (Ancestry(made) \ dirs)
                              \cup (IF entry_type = "Regular"
                                    THEN {target_path} ELSE {})
    /\ pending' = None
    /\ UNCHANGED <<platform, top_level_map, last_entry, n_entries, at_start, n_others,
                   cancel_flag, at_cancel>>
    /\ UNCHANGED outsideUntar

\* Writes a concurrent extraction into the same directory may make.
MaxOtherWrites == 1

\* Where a concurrent extraction may write: its own target paths.
OtherTargets ==
    {[target_path |-> dest_dir \o <<"a (1)">>, entry_type |-> "Directory"],
     [target_path |-> dest_dir \o <<"a (2).txt">>, entry_type |-> "Regular"]}

\* A second untar_stream on the same destination creates a directory or
\* unpacks a regular file, at any moment of the first one.
other_untar_write ==
    /\ u_pc \in {"entries", "write"}
    /\ n_others < MaxOtherWrites
    /\ n_others' = n_others + 1
    /\ \E other \in OtherTargets :
          LET target_path == other.target_path
              entry_type == other.entry_type
              parent == SubSeq(target_path, 1, Len(target_path) - 1)
          IN  /\ CanCreateDirAll(parent)
              /\ IF entry_type = "Directory"
                 THEN /\ CanCreateDirAll(target_path)
                      /\ dirs' = dirs \cup Ancestry(target_path)
                      /\ files' = files
                 ELSE /\ target_path \notin dirs
                      /\ dirs' = dirs \cup Ancestry(parent)
                      /\ files' = files \cup {target_path}
    /\ UNCHANGED <<u_pc, platform, restored_paths, top_level_map, written, last_entry,
                   n_entries, at_start, pending, cancel_flag, at_cancel>>
    /\ UNCHANGED outsideUntar

\* The archive has no further entry, or cancel_flag was found set.
untar_end ==
    /\ u_pc = "entries"
    /\ u_pc' = "done"
    /\ UNCHANGED <<platform, files, dirs, restored_paths, top_level_map, written,
                   last_entry, n_entries, at_start, pending, n_others, cancel_flag,
                   at_cancel>>
    /\ UNCHANGED outsideUntar

\* ConnectionRequest::cancel sets the flag untar_stream was given.
set_cancel_flag ==
    /\ u_pc \in {"entries", "write"}
    /\ ~cancel_flag
    /\ cancel_flag' = TRUE
    /\ at_cancel' = Some(n_entries)
    /\ UNCHANGED <<u_pc, platform, files, dirs, restored_paths, top_level_map, written,
                   last_entry, n_entries, at_start, pending, n_others>>
    /\ UNCHANGED outsideUntar

NextUntar ==
    \/ untar_stream
    \/ untar_next_entry
    \/ untar_write
    \/ other_untar_write
    \/ untar_end
    \/ set_cancel_flag

SpecUntar == Init /\ [][NextUntar]_vars

\* The declared path of the last entry has no segment that names something.
NothingNamed(raw_rel_path) ==
    \A k \in 1..Len(raw_rel_path) :
        \/ raw_rel_path[k] \in {"", ".", ".."}
        \/ platform = "windows" /\ k = 1 /\ raw_rel_path[k] = "C:"

\* C20: every path untar_stream returns or writes lies below the destination
\* directory, whatever the entries declared; an entry whose sanitized path is
\* empty adds no path and writes nothing.
C20_TargetsBelowDest ==
    /\ \A k \in 1..Len(restored_paths) : IsDescendant(restored_paths[k])
    /\ \A path \in written : InOrAt(path)
    /\ (last_entry.called /\ NothingNamed(last_entry.raw_rel_path)) =>
          /\ restored_paths = last_entry.restored_paths
          /\ written = last_entry.written


\* After an entry that was skipped, the entry declared as a/../../b was
\* unpacked as a regular file to dest/a/b.
C20_Witness ==
    /\ n_entries = 2
    /\ last_entry.called
    /\ last_entry.raw_rel_path = <<"a", "..", "..", "b">>
    /\ last_entry.entry_type = "Regular"
    /\ last_entry.restored_paths = <<>>
    /\ restored_paths = <<dest_dir \o <<"a", "b">>>>
    /\ dest_dir \o <<"a", "b">> \in files

\* The name 'X (n)' of a name X, the extension kept.
RenamedTo(name, n) ==
    IF name = "a.txt" THEN "a (" \o ToString(n) \o ").txt"
    ELSE name \o " (" \o ToString(n) \o ")"

\* C21: nothing that existed in the destination when the extraction started
\* is written by it, whatever a concurrent extraction does meanwhile; and a
\* top-level name that exists when it is looked up is replaced by 'X (n)', n
\* the first of 1, 2, ... whose name does not exist, the extension kept.
C21_ExistingNeverOverwritten ==
    /\ written \cap at_start = {}
    /\ (last_entry.called /\ ~last_entry.skipped /\ last_entry.chosen.some) =>
          LET wanted == last_entry.chosen.val.wanted
              got == last_entry.chosen.val.got
              free == last_entry.chosen.val.free
          IN  IF 0 \in free THEN got = wanted
              ELSE \E n \in free :
                      /\ \A m \in free : n <= m
                      /\ got = WithFileName(wanted, RenamedTo(wanted[Len(wanted)], n))

\* a.txt and a (1).txt were there, a concurrent extraction wrote a (2).txt,
\* and the entry a.txt was unpacked to a (3).txt.
C21_Witness ==
    /\ dest_dir \o <<"a.txt">> \in at_start
    /\ n_others = 1
    /\ last_entry.called
    /\ last_entry.raw_rel_path = <<"a.txt">>
    /\ last_entry.entry_type = "Regular"
    /\ dest_dir \o <<"a (3).txt">> \in written
    /\ restored_paths = <<dest_dir \o <<"a (3).txt">>>>

\* C22: once the cancel flag is set no further entry is started, the one in
\* progress apart; the list returned is no longer than the number of entries
\* met; and what was written stays.
C22_StopsWithinOneEntry ==
    /\ cancel_flag => n_entries = at_cancel.val
    /\ u_pc = "done" => Len(restored_paths) <= n_entries
    /\ written \subseteq files \cup dirs

\* The flag was set once the second entry had been met: untar_stream met no
\* third one and returned, and both files are in place.
C22_Witness ==
    /\ cancel_flag
    /\ at_cancel = Some(2)
    /\ u_pc = "done"
    /\ Len(restored_paths) = 2
    /\ \A k \in 1..2 : restored_paths[k] \in files

-----------------------------------------------------------------------------
\* The advertisement plane: reads of the discovery characteristic.

PROTOCOL_VERSION == 0

\* Setter calls explored.
MaxSetterCalls == 2

\* DeviceDiscoveryMessage { content: DeviceConnectionInfo(info) }
\*     .encode_length_delimited_to_vec()
EncodeLengthDelimited(info) ==
    <<[length_delimited |-> TRUE,
       content |-> [kind |-> "DeviceConnectionInfo", info |-> info]]>>

\* Setter calls made so far: the setters change nothing else than the info.
SetterCalls ==
    (IF own_connection_info.device # Some(MyDevice) THEN 1 ELSE 0)
    + (IF own_connection_info.ble.some THEN 1 ELSE 0)
    + (IF own_connection_info.tcp.some
          /\ own_connection_info.tcp.val.hostname = "set" THEN 1 ELSE 0)

\* InternalNearbyServer::change_device
change_device ==
    /\ SetterCalls < MaxSetterCalls
    /\ \E new_device \in {[id |-> "d1", name |-> "n2"]} :
          own_connection_info' =
              [own_connection_info EXCEPT
                 !.device = Some([id |-> new_device.id, name |-> new_device.name,
                                  protocol_version |-> Some(PROTOCOL_VERSION)])]
    /\ own_connection_info' # own_connection_info
    /\ UNCHANGED <<tcp_server, current_share_store, tmp_file, generate_link_call,
                   send_to_call, session_terminal, n_shares, n_sends>>
    /\ UNCHANGED <<advertVars, outsideShare>>

\* InternalNearbyServer::set_bluetooth_le_details
set_bluetooth_le_details ==
    /\ SetterCalls < MaxSetterCalls
    /\ \E ble_info \in {[uuid |-> "u1", psm |-> 1]} :
          own_connection_info' = [own_connection_info EXCEPT !.ble = Some(ble_info)]
    /\ own_connection_info' # own_connection_info
    /\ UNCHANGED <<tcp_server, current_share_store, tmp_file, generate_link_call,
                   send_to_call, session_terminal, n_shares, n_sends>>
    /\ UNCHANGED <<advertVars, outsideShare>>

\* InternalNearbyServer::set_tcp_details
set_tcp_details ==
    /\ SetterCalls < MaxSetterCalls
    /\ \E tcp_info \in {[hostname |-> "set", port |-> 80]} :
          own_connection_info' = [own_connection_info EXCEPT !.tcp = Some(tcp_info)]
    /\ own_connection_info' # own_connection_info
    /\ UNCHANGED <<tcp_server, current_share_store, tmp_file, generate_link_call,
                   send_to_call, session_terminal, n_shares, n_sends>>
    /\ UNCHANGED <<advertVars, outsideShare>>

\* InternalNearbyServer::get_advertisement_data
get_advertisement_data ==
    /\ read_call' =
          [called |-> TRUE, by |-> "get_advertisement_data", advertising |-> advertise,
           value |-> IF advertise THEN EncodeLengthDelimited(own_connection_info)
                     ELSE <<>>,
           own_connection_info |-> own_connection_info]
    /\ UNCHANGED <<advertise, gatt_characteristic>>
    /\ UNCHANGED <<shareVars, outsideShare>>

\* The ReadRequested handler that setup_gatt_server registered answers a read.
read_requested_handler ==
    /\ gatt_characteristic.some
    /\ advertise
    /\ read_call' =
          [called |-> TRUE, by |-> "read_requested_handler",
           advertising |-> advertise,
           value |-> EncodeLengthDelimited(gatt_characteristic.val),
           own_connection_info |-> own_connection_info]
    /\ UNCHANGED <<advertise, gatt_characteristic>>
    /\ UNCHANGED <<shareVars, outsideShare>>

NextAdvert ==
    \/ server_start
    \/ server_stop
    \/ change_device
    \/ set_bluetooth_le_details
    \/ set_tcp_details
    \/ get_advertisement_data
    \/ read_requested_handler

SpecAdvert == Init /\ [][NextAdvert]_vars

\* C23: a read of the discovery characteristic made while the server is
\* advertising returns the encoding of the owner's DeviceConnectionInfo as it
\* is at the time of the read.
C23_ReadReturnsCurrentInfo ==
    (read_call.called /\ read_call.advertising) =>
        read_call.value = EncodeLengthDelimited(read_call.own_connection_info)

C30_StreamingProgressClamped ==
    (s_payload.some /\ s_payload.val.kind = "files" /\ s_pc = "stream") =>
        \A i \in 1..Len(s_log) :
            s_log[i].s = "Transferring" =>
                s_log[i].progress[1] * 1000 <= 999 * s_log[i].progress[2]

\* ------------------------------------------------------------------------
\* parse_discovery_message called from several scanner threads
\* ------------------------------------------------------------------------
discoveryRest ==
    <<DELEGATES, delegate_calls, last_call, recent, n_messages, observed>>

outsideParse ==
    <<transferVars, listenerVars, dialVars, shareVars, downloadVars, untarVars,
      advertVars, acceptVars, scanVars, readerVars,
      watcherVars>>

\* What an observer does inside device_added / device_removed: nothing that
\* touches the InternalDiscovery, or one call back into it.
CallbackCalls == {"none", "get_devices", "stop", "get_connection_details"}

\* The lock a call takes first: get_devices reads self.discovered_devices,
\* stop writes DELEGATES, get_connection_details reads DISCOVERED_DEVICES.
LockNeeded(op) ==
    CASE op = "get_devices" -> [lock |-> "discovered_devices", mode |-> "read"]
      [] op = "stop" -> [lock |-> "DELEGATES", mode |-> "write"]
      [] op = "get_connection_details" -> [lock |-> "DISCOVERED_DEVICES", mode |-> "read"]

\* The guards the notifying thread holds while device_added runs: the write
\* guard of the arm on self.discovered_devices and add_discovered_device's
\* read guard on DELEGATES.
HeldInAdded ==
    {[lock |-> "discovered_devices", mode |-> "write"],
     [lock |-> "DELEGATES", mode |-> "read"]}

\* The guard the notifying thread holds while device_removed runs:
\* remove_discovered_device's read guard on DELEGATES.
HeldInRemoved == {[lock |-> "DELEGATES", mode |-> "read"]}

\* A std::sync::RwLock is not reentrant: a thread that holds a guard and asks
\* for the same lock again, one of the two for writing, does not get it.
Conflicts(need, held) ==
    \E h \in held : h.lock = need.lock /\ (h.mode = "write" \/ need.mode = "write")

\* What such a request does to the thread: it blocks for good, or the lock
\* implementation panics (the std documentation allows both).
Stuck == {"blocked", "panicked"}

\* The observer's callback on thread t calls `op` while the thread holds
\* `held`; with the call served the thread goes on to `next`.
callback(t, op, held, next) ==
    IF op = "none"
    THEN /\ parse_pc' = [parse_pc EXCEPT ![t] = next]
         /\ reentry' = reentry
    ELSE IF Conflicts(LockNeeded(op), held)
    THEN \E outcome \in Stuck :
            /\ parse_pc' = [parse_pc EXCEPT ![t] = outcome]
            /\ reentry' = [called |-> TRUE, op |-> op, held |-> held,
                           outcome |-> outcome]
    ELSE /\ parse_pc' = [parse_pc EXCEPT ![t] = next]
         /\ reentry' = [called |-> TRUE, op |-> op, held |-> held,
                        outcome |-> "returned"]

\* DeviceConnectionInfo arm: `self.discovered_devices.write()` returns the
\* guard, which the arm keeps in a local until its end.
info_lock(t) ==
    /\ parse_pc[t] = "idle"
    /\ n_parses < MaxParses
    /\ registry_lock = None
    /\ \E msg \in {m \in SightingMessages : m.kind = "info"} :
          parse_msg' = [parse_msg EXCEPT ![t] = Some(msg)]
    /\ registry_lock' = Some(t)
    /\ parse_pc' = [parse_pc EXCEPT ![t] = "lookup"]
    /\ n_parses' = n_parses + 1
    /\ UNCHANGED <<notified, reentry, DISCOVERED_DEVICES, discovered_devices,
                   discoveryRest, outsideParse>>

\* DeviceConnectionInfo arm, under the guard: the lookup and, for a new or
\* changed entry, add_discovered_device, which runs the observer's
\* device_added under its read guard on DELEGATES.
info_announce(t) ==
    /\ parse_pc[t] = "lookup"
    /\ LET info == StampBleUuid(parse_msg[t].val.info, None)
           device == info.device.val
       IN  IF ShouldAnnounce(discovered_devices, device.id, info)
           THEN /\ notified' = Append(notified, [kind |-> "added", id |-> device.id])
                /\ \E op \in CallbackCalls : callback(t, op, HeldInAdded, "insert")
           ELSE /\ notified' = notified
                /\ parse_pc' = [parse_pc EXCEPT ![t] = "insert"]
                /\ reentry' = reentry
    /\ UNCHANGED <<registry_lock, parse_msg, n_parses, DISCOVERED_DEVICES,
                   discovered_devices, discoveryRest, outsideParse>>

\* DeviceConnectionInfo arm, under the guard: both inserts; the guard is
\* dropped where the arm ends.
info_insert(t) ==
    /\ parse_pc[t] = "insert"
    /\ LET info == StampBleUuid(parse_msg[t].val.info, None)
           device == info.device.val
       IN  /\ discovered_devices' = MapInsert(discovered_devices, device.id, info)
           /\ DISCOVERED_DEVICES' = MapInsert(DISCOVERED_DEVICES, device.id, info)
    /\ registry_lock' = None
    /\ parse_pc' = [parse_pc EXCEPT ![t] = "idle"]
    /\ parse_msg' = [parse_msg EXCEPT ![t] = None]
    /\ UNCHANGED <<notified, n_parses, reentry, discoveryRest, outsideParse>>

\* OfflineDeviceId arm, first statement:
\* `self.discovered_devices.write().unwrap().remove(&device_id);` takes the
\* guard, removes and drops the guard at the end of the statement.
offline_remove(t) ==
    /\ parse_pc[t] = "idle"
    /\ n_parses < MaxParses
    /\ registry_lock = None
    /\ \E msg \in {m \in SightingMessages : m.kind = "offline"} :
          /\ parse_msg' = [parse_msg EXCEPT ![t] = Some(msg)]
          /\ discovered_devices' = OfflineRemove(discovered_devices, msg.id)
          /\ DISCOVERED_DEVICES' = OfflineStatic(DISCOVERED_DEVICES, msg.id)
    /\ parse_pc' = [parse_pc EXCEPT ![t] = "removed"]
    /\ n_parses' = n_parses + 1
    /\ UNCHANGED <<registry_lock, notified, reentry, discoveryRest, outsideParse>>

\* OfflineDeviceId arm, second statement: remove_discovered_device, with no
\* guard on the registry held; it runs the observer's device_removed under
\* its read guard on DELEGATES.
offline_notify(t) ==
    /\ parse_pc[t] = "removed"
    /\ notified' = Append(notified, [kind |-> "removed", id |-> parse_msg[t].val.id])
    /\ \E op \in CallbackCalls : callback(t, op, HeldInRemoved, "idle")
    /\ parse_msg' = [parse_msg EXCEPT ![t] = IF parse_pc'[t] = "idle" THEN None ELSE @]
    /\ UNCHANGED <<registry_lock, n_parses, DISCOVERED_DEVICES, discovered_devices,
                   discoveryRest, outsideParse>>

NextParse ==
    \E t \in ScannerThreads :
        \/ info_lock(t)
        \/ info_announce(t)
        \/ info_insert(t)
        \/ offline_remove(t)
        \/ offline_notify(t)

SpecParse == Init /\ [][NextParse]_vars

\* The indices of the notifications made for device id.
NotifiedFor(id) == {i \in 1..Len(notified) : notified[i].id = id}

\* C25: with no parse_discovery_message call in progress, the last
\* notification made for a device id agrees with the registry: device_added
\* last means the id is in the registry, device_removed last means it is not.
C25_LastNotificationAgrees ==
    (\A t \in ScannerThreads : parse_pc[t] = "idle") =>
        \A id \in DeviceIds :
            NotifiedFor(id) # {} =>
                LET last == notified[CHOOSE i \in NotifiedFor(id) :
                                        \A j \in NotifiedFor(id) : j <= i]
                IN  (last.kind = "added") <=> (id \in DOMAIN discovered_devices)

\* C26: a Sender registered under a connection id is given a stream at most
\* once, whatever deliveries arrive for the id; the removal of a delivery takes
\* the id's Sender out of the table and nothing else, and a delivery whose id
\* is unknown or already used leaves the table and every waiter as they were.
C26_DeliveredAtMostOnce ==
    /\ \A id \in DOMAIN l2cap_sent : l2cap_sent[id] = 1 /\ id \notin l2cap_taken
    /\ last_incoming.called =>
          /\ last_incoming.after = last_incoming.before \ {last_incoming.connection_id}
          /\ ~last_incoming.found => last_incoming.after = last_incoming.before

\* A second delivery for an id whose Sender was already given a stream found
\* nothing, while another waiter was in the table.
C26_Witness ==
    /\ last_incoming.called
    /\ ~last_incoming.found
    /\ last_incoming.used
    /\ last_incoming.after # {}
    /\ c_pc = "await"
    /\ c_channel = "pending"

\* ------------------------------------------------------------------------
\* The accept loop: start_loop, stop_tcp_server and the spawned task
\* ------------------------------------------------------------------------
\* TcpServers made (start calls that bind) in one behaviour.
MaxLoops == 2

outsideAccept ==
    <<discoveryVars, transferVars, listenerVars, dialVars, shareVars, downloadVars,
      untarVars, advertVars, parseVars, scanVars, readerVars,
      watcherVars>>

\* The tasks that are inside the body of their loop.
TasksInLoop ==
    {i \in 1..Len(tcp_servers) : tcp_servers[i].pc \in {"accept", "recv", "deliver"}}

\* InternalNearbyServer::start with tcp_server None and a listener bound:
\* the new TcpServer (running = true, no task) is stored and start_loop moves
\* its listener into the task it spawns and keeps the task's handle.
start_loop ==
    /\ installed = 0
    /\ Len(tcp_servers) < MaxLoops
    /\ tcp_servers' = Append(tcp_servers,
                             [running |-> TRUE, aborted |-> FALSE, pc |-> "while"])
    /\ installed' = Len(tcp_servers) + 1
    /\ UNCHANGED <<late, outsideAccept>>

\* stop_tcp_server (called by stop): running is set to false, the task's
\* handle is taken and aborted, self.tcp_server becomes None.
stop_tcp_server ==
    /\ installed # 0
    /\ tcp_servers' = [tcp_servers EXCEPT ![installed].running = FALSE,
                                          ![installed].aborted = TRUE]
    /\ installed' = 0
    /\ UNCHANGED <<late, outsideAccept>>

\* restart_server: stop, then start with a listener bound again.
restart_server ==
    /\ installed # 0
    /\ Len(tcp_servers) < MaxLoops
    /\ tcp_servers' =
          Append([tcp_servers EXCEPT ![installed].running = FALSE,
                                     ![installed].aborted = TRUE],
                 [running |-> TRUE, aborted |-> FALSE, pc |-> "while"])
    /\ installed' = Len(tcp_servers) + 1
    /\ UNCHANGED <<late, outsideAccept>>

\* What a task did after its server was stopped, as it is recorded in `late`.
Late(i, what) == IF tcp_servers[i].aborted THEN late \cup {what} ELSE late

\* The task: `while running.load(Ordering::SeqCst)`. The task is left when
\* the flag is false.
task_while(i) ==
    /\ i <= Len(tcp_servers)
    /\ tcp_servers[i].pc = "while"
    /\ tcp_servers' = [tcp_servers EXCEPT ![i].pc =
                          IF tcp_servers[i].running THEN "accept" ELSE "ended"]
    /\ UNCHANGED <<installed, late, outsideAccept>>

\* The task: `listener.accept()` on the non-blocking listener it owns: a
\* connection, or an error and `continue`.
task_accept(i) ==
    /\ i <= Len(tcp_servers)
    /\ tcp_servers[i].pc = "accept"
    /\ \E accepted \in BOOLEAN :
          tcp_servers' = [tcp_servers EXCEPT ![i].pc =
                             IF accepted THEN "recv" ELSE "while"]
    /\ late' = Late(i, "accept")
    /\ UNCHANGED <<installed, outsideAccept>>

\* The task: initiate_receiver_communication and recv::<Request>() on the
\* blocking stream; a failure of either and a Request that is no ShareRequest
\* go back to the loop head.
task_recv(i) ==
    /\ i <= Len(tcp_servers)
    /\ tcp_servers[i].pc = "recv"
    /\ \E share_request \in BOOLEAN :
          tcp_servers' = [tcp_servers EXCEPT ![i].pc =
                             IF share_request THEN "deliver" ELSE "while"]
    /\ UNCHANGED <<installed, late, outsideAccept>>

\* The task: `delegate.read().await.received_connection_request(..)`. The
\* await is the loop's only one: an aborted task ends there if the await
\* yields, and delivers if it does not.
task_deliver(i) ==
    /\ i <= Len(tcp_servers)
    /\ tcp_servers[i].pc = "deliver"
    /\ \E yields \in BOOLEAN :
          IF yields /\ tcp_servers[i].aborted
          THEN /\ tcp_servers' = [tcp_servers EXCEPT ![i].pc = "ended"]
               /\ late' = late
          ELSE /\ tcp_servers' = [tcp_servers EXCEPT ![i].pc = "while"]
               /\ late' = Late(i, "deliver")
    /\ UNCHANGED <<installed, outsideAccept>>

NextAccept ==
    \/ start_loop
    \/ stop_tcp_server
    \/ restart_server
    \/ \E i \in 1..MaxLoops : task_while(i)
    \/ \E i \in 1..MaxLoops : task_accept(i)
    \/ \E i \in 1..MaxLoops : task_recv(i)
    \/ \E i \in 1..MaxLoops : task_deliver(i)

SpecAccept == Init /\ [][NextAccept]_vars

\* C27: at most one accept-loop task is at work in its loop at any time, and
\* a task whose server was stopped accepts no connection and delivers no
\* request any more.
C27_OneLoopNothingLate ==
    /\ Cardinality(TasksInLoop) <= 1
    /\ late = {}

\* ------------------------------------------------------------------------
\* The windows scanner: the advertisement handler and its GATT tasks
\* ------------------------------------------------------------------------
MAX_CONCURRENT_CONNECTIONS == 5

\* connect_and_read_characteristic: `let max_retries = 2`
max_retries == 2

\* Advertisements the watcher hands to the handler in one behaviour.
MaxAdverts == 6

\* Bluetooth addresses that advertise the service.
BleAddresses == {"A", "B"}

\* How attempt_connection under tokio::time::timeout ends: Ok after it has
\* read the characteristic, an error of one of its steps, or the timeout.
AttemptResults == {"Ok", "Err", "Elapsed"}

outsideScan ==
    <<discoveryVars, transferVars, listenerVars, dialVars, shareVars, downloadVars,
      untarVars, advertVars, parseVars, acceptVars, readerVars,
      watcherVars>>

\* The Received handler of the watcher for an advertisement from ble_address:
\* an address seen within DEVICE_DEDUPLICATION_WINDOW is skipped; otherwise it
\* is recorded as seen and, unless the active_connections map is full, entered
\* into the map (under its address as key) and a task is spawned for it.
advertisement_received(ble_address) ==
    /\ n_adverts < MaxAdverts
    /\ n_adverts' = n_adverts + 1
    /\ IF ble_address \in seen_recently
       THEN UNCHANGED <<seen_recently, active_connections, gatt_tasks>>
       ELSE /\ seen_recently' = seen_recently \cup {ble_address}
            /\ IF Cardinality(active_connections) >= MAX_CONCURRENT_CONNECTIONS
               THEN UNCHANGED <<active_connections, gatt_tasks>>
               ELSE /\ active_connections' = active_connections \cup {ble_address}
                    /\ gatt_tasks' = gatt_tasks (+)
                          SetToBag({[ble_address |-> ble_address, retry_count |-> 0]})
    /\ UNCHANGED <<last_task, outsideScan>>

\* DEVICE_DEDUPLICATION_WINDOW has passed since the address was last seen.
window_passed(ble_address) ==
    /\ ble_address \in seen_recently
    /\ seen_recently' = seen_recently \ {ble_address}
    /\ UNCHANGED <<active_connections, gatt_tasks, last_task, n_adverts, outsideScan>>

\* Mutant: one more turn of the loop.
LoopGoesOn_OneMore(retry_count) == retry_count < max_retries + 1

\* connect_and_read_characteristic: `while retry_count < max_retries`
LoopGoesOn(retry_count) == retry_count < max_retries

\* One turn of the loop of a task: attempt_connection under the timeout. Ok
\* means parse_discovery_message was called with the value read, and the task
\* returns; otherwise retry_count grows and the loop test decides. A task that
\* returns removes its address from active_connections.
attempt_connection(task) ==
    /\ BagIn(task, gatt_tasks)
    /\ \E result \in AttemptResults :
          LET retry_count == IF result = "Ok" THEN task.retry_count
                                              ELSE task.retry_count + 1
              returns == result = "Ok" \/ ~LoopGoesOn(retry_count)
          IN  IF returns
              THEN /\ gatt_tasks' = gatt_tasks (-) SetToBag({task})
                   /\ active_connections' = active_connections \ {task.ble_address}
                   /\ last_task' = [called |-> TRUE,
                                    attempts |-> task.retry_count + 1,
                                    ok |-> result = "Ok",
                                    submitted |-> IF result = "Ok" THEN 1 ELSE 0]
              ELSE /\ gatt_tasks' = (gatt_tasks (-) SetToBag({task})) (+)
                          SetToBag({[task EXCEPT !.retry_count = retry_count]})
                   /\ UNCHANGED <<active_connections, last_task>>
    /\ UNCHANGED <<seen_recently, n_adverts, outsideScan>>

NextScan ==
    \/ \E ble_address \in BleAddresses : advertisement_received(ble_address)
    \/ \E ble_address \in BleAddresses : window_passed(ble_address)
    \/ \E task \in [ble_address : BleAddresses, retry_count : 0..max_retries] :
          attempt_connection(task)

SpecScan == Init /\ [][NextScan]_vars

\* C28: the number of connect_and_read_characteristic tasks in progress never
\* exceeds MAX_CONCURRENT_CONNECTIONS.
C28_AtMostFiveTasks == BagCardinality(gatt_tasks) <= MAX_CONCURRENT_CONNECTIONS

MaxReads == 3

\* Most bytes one read of the inner stream returns.
MaxChunk == 2

outsideReader ==
    <<discoveryVars, transferVars, listenerVars, dialVars, shareVars, downloadVars,
      untarVars, advertVars, parseVars, acceptVars, scanVars,
      watcherVars>>

\* What self.inner.read(buf) returns: Ok(n), n = 0 at the end of the stream,
\* or an error.
InnerReads == {[ok |-> TRUE, n |-> n] : n \in 0..MaxChunk} \cup {[ok |-> FALSE, n |-> 0]}

\* Mutant: the read goes on whatever should_cancel says.
ReadRefused_Never(flag) == FALSE

\* ProgressReader::read: `if (self.should_cancel)()`
ReadRefused(flag) == flag

\* ProgressReader::read
progress_read ==
    /\ n_reads < MaxReads
    /\ n_reads' = n_reads + 1
    /\ \E inner \in InnerReads :
          LET refused == ReadRefused(reader_cancel)
              counted == ~refused /\ inner.ok
          IN  /\ inner_taken' = IF refused THEN inner_taken ELSE inner_taken + inner.n
              /\ reader_read' = IF counted THEN reader_read + inner.n ELSE reader_read
              /\ callback_calls' =
                    IF counted
                    THEN Append(callback_calls,
                                [total |-> reader_read', taken |-> inner_taken'])
                    ELSE callback_calls
              /\ last_read' = [called |-> TRUE, should_cancel |-> reader_cancel,
                               inner |-> inner,
                               result |-> IF counted THEN Some(inner.n) ELSE None,
                               taken_before |-> inner_taken,
                               calls_before |-> callback_calls]
    /\ UNCHANGED <<reader_cancel, outsideReader>>

\* The cancel predicate becomes true (ConnectionRequest::cancel).
reader_cancelled ==
    /\ ~reader_cancel
    /\ reader_cancel' = TRUE
    /\ UNCHANGED <<reader_read, inner_taken, callback_calls, last_read, n_reads,
                   outsideReader>>

NextReader == progress_read \/ reader_cancelled

SpecReader == Init /\ [][NextReader]_vars

\* C31: a read made with the cancel predicate set fails, takes nothing from
\* the inner stream and makes no callback; any other read that the inner
\* stream serves adds its bytes to the total and passes the new total to the
\* callback; the totals passed never decrease and each equals the bytes taken
\* from the inner stream by then.
C31_ReaderChecksThenCounts ==
    /\ reader_read = inner_taken
    /\ \A i \in 1..Len(callback_calls) :
          /\ callback_calls[i].total = callback_calls[i].taken
          /\ i > 1 => callback_calls[i - 1].total <= callback_calls[i].total
    /\ last_read.called =>
          IF last_read.should_cancel
          THEN /\ ~last_read.result.some
               /\ inner_taken = last_read.taken_before
               /\ callback_calls = last_read.calls_before
          ELSE last_read.inner.ok =>
                  /\ last_read.result = Some(last_read.inner.n)
                  /\ callback_calls =
                        Append(last_read.calls_before,
                               [total |-> last_read.taken_before + last_read.inner.n,
                                taken |-> last_read.taken_before + last_read.inner.n])

\* A read was refused after bytes had been read and reported.
C31_Witness ==
    /\ last_read.called
    /\ last_read.should_cancel
    /\ ~last_read.result.some
    /\ reader_read > 0
    /\ callback_calls # <<>>

\* C32: an entry that is not a single top-level file is placed under the root
\* directory the call's map holds for its root component; the map keeps every
\* choice made earlier in the call, also for a root that exists on disk by
\* now, and a root is chosen by the unique-name policy only when it is new.
C32_OneRootPerComponent ==
    (last_entry.called /\ last_entry.mapped.some) =>
        LET e == last_entry.mapped.val
        IN  /\ e.root_component \in DOMAIN top_level_map
            /\ e.target_path = top_level_map[e.root_component] \o e.sub_path
            /\ \A r \in DOMAIN e.before :
                  r \in DOMAIN top_level_map /\ top_level_map[r] = e.before[r]

\* dest/a existed, so the directory entry a was placed at dest/a (1); the
\* later entry a/./b went below dest/a (1) although that exists by then.
C32_Witness ==
    /\ n_entries = 2
    /\ last_entry.called
    /\ last_entry.mapped.some
    /\ last_entry.raw_rel_path = <<"a", ".", "b">>
    /\ "a" \in DOMAIN last_entry.mapped.val.before
    /\ last_entry.mapped.val.before["a"] = dest_dir \o <<"a (1)">>
    /\ dest_dir \o <<"a (1)">> \in dirs
    /\ last_entry.mapped.val.target_path = dest_dir \o <<"a (1)", "b">>

\* C37: every path in the list untar_stream returns names a file or a
\* directory that is in place under the destination.
C37_ReturnedPathsExist ==
    u_pc = "done" =>
        \A k \in 1..Len(restored_paths) : restored_paths[k] \in files \cup dirs


\* ------------------------------------------------------------------------
\* The L2CAP table after a dial
\* ------------------------------------------------------------------------

\* C33: whenever Connection::connect has returned, with a stream or with any
\* error, the L2CAP table holds no waiter under the id this call generated.
C33_NoWaiterLeftBehind ==
    (c_pc = "done" /\ c_id # 0) => c_id \notin L2CAP_CONNECTIONS

\* The running connect has called open_l2cap_connection and waits, nothing
\* delivered or dropped yet.
Waiting == c_pc = "await" /\ c_channel = "pending"

\* C34: in the BLE fallback the waiter is in the table by the time
\* open_l2cap_connection is invoked, so that a delivery under the id, however
\* early, finds it (it is in the table or a delivery has just taken it); and
\* whenever a stream has been delivered to the waiting connect, connect goes
\* on to the TLS wrap and returns.
C34_WaiterBeforeOpen ==
    /\ [](Waiting => (/\ Len(open_l2cap_calls) = 1
                      /\ open_l2cap_calls[1].connection_id = c_id
                      /\ c_id \in L2CAP_CONNECTIONS \cup l2cap_taken))
    /\ (c_pc = "await" /\ c_channel = "stream")
          ~> (c_pc = "done" /\ c_result \in {Some("Ok"), Some("FailedToEncryptStream")})

\* The delegate's delivery under the id of the running connect found the
\* waiter, and connect returned from the TLS wrap.
C34_Witness ==
    /\ c_pc = "done"
    /\ c_channel = "stream"
    /\ c_result \in {Some("Ok"), Some("FailedToEncryptStream")}
    /\ last_incoming.called
    /\ last_incoming.connection_id = c_id
    /\ last_incoming.found
    /\ c_id \in DOMAIN l2cap_sent

\* ------------------------------------------------------------------------
\* What send_to returns
\* ------------------------------------------------------------------------

\* The last state send_to reported to its delegate, if any.
LastReported ==
    IF s_log = <<>> THEN "None" ELSE s_log[Len(s_log)].s

\* C35: a send_to that has returned (to a caller with a delegate) returned
\* Ok(()) if and only if the last state it reported is Finished; with
\* Cancelled, Declined or Unknown last, or no terminal state, it returned an
\* error.
C35_OkIffFinished ==
    (/\ s_pc = "done"
     /\ s_payload.val.kind \in {"text", "files"}
     /\ s_payload.val.delegate
     /\ s_result # Some("panic"))
        => (s_result = Some("Ok") <=> LastReported = "Finished")

\* C36: a Text send_to reports Finished, and returns Ok, only if its
\* clipboard Request was written to the stream.
C36_FinishedMeansRequestWritten ==
    (/\ s_payload.some
     /\ s_payload.val.kind = "text"
     /\ (LastReported = "Finished" \/ s_result = Some("Ok")))
        => s_fault # "SendErr"

\* ------------------------------------------------------------------------
\* The Windows scanner: start(), stop() and the scan loops
\* ------------------------------------------------------------------------

\* Most scan threads one InternalDiscovery spawns.
MaxScanStarts == 3

\* Most calls of stop().
MaxScanStops == 2

outsideWatcher ==
    <<discoveryVars, transferVars, listenerVars, dialVars, shareVars, downloadVars,
      untarVars, advertVars, parseVars, acceptVars, scanVars, readerVars>>

\* windows_start_scanning (through InternalDiscovery::start): the flag is set
\* and a new thread is spawned that runs scan_and_connect; there it starts its
\* watcher and comes to the head of its loop.
windows_start_scanning ==
    /\ Len(scan_loops) < MaxScanStarts
    /\ scanning' = TRUE
    /\ scan_loops' = Append(scan_loops,
                            [pc |-> "while", is_scanning |-> TRUE,
                             watcher |-> "Started", stopped |-> FALSE,
                             rearmed |-> FALSE])
    /\ UNCHANGED <<n_stops, outsideWatcher>>

\* windows_stop_scanning (through InternalDiscovery::stop): the flag is
\* cleared; every loop alive at this moment has been told to stop.
windows_stop_scanning ==
    /\ n_stops < MaxScanStops
    /\ n_stops' = n_stops + 1
    /\ scanning' = FALSE
    /\ scan_loops' = [i \in 1..Len(scan_loops) |->
                        IF scan_loops[i].pc = "ended"
                        THEN scan_loops[i]
                        ELSE [scan_loops[i] EXCEPT !.stopped = TRUE]]
    /\ UNCHANGED outsideWatcher

\* `while scanning.load(Ordering::Relaxed)`
LoopRuns(flag) == flag

\* scan_and_connect of thread i at the head of its loop: with the flag set it
\* goes to sleep; otherwise it stops its watcher and the thread ends.
scan_while(i) ==
    /\ i <= Len(scan_loops)
    /\ scan_loops[i].pc = "while"
    /\ scan_loops' =
          [scan_loops EXCEPT ![i] =
              IF LoopRuns(scanning)
              THEN [@ EXCEPT !.pc = "sleep", !.rearmed = @ \/ scan_loops[i].stopped]
              ELSE [@ EXCEPT !.pc = "ended", !.watcher = "Stopped"]]
    /\ UNCHANGED <<scanning, n_stops, outsideWatcher>>

\* scan_and_connect of thread i wakes from its sleep: after SCAN_INTERVAL it
\* pauses the watcher, after PAUSE_INTERVAL it resumes it.
scan_wake(i) ==
    /\ i <= Len(scan_loops)
    /\ scan_loops[i].pc = "sleep"
    /\ scan_loops' =
          [scan_loops EXCEPT ![i] =
              [@ EXCEPT !.pc = "while",
                        !.is_scanning = ~@,
                        !.watcher = IF scan_loops[i].is_scanning
                                    THEN "Stopped" ELSE "Started"]]
    /\ UNCHANGED <<scanning, n_stops, outsideWatcher>>

NextWatcher ==
    \/ windows_start_scanning
    \/ windows_stop_scanning
    \/ \E i \in 1..MaxScanStarts : scan_while(i)
    \/ \E i \in 1..MaxScanStarts : scan_wake(i)

SpecWatcher == Init /\ [][NextWatcher]_vars

\* The scan loops that have not ended.
RunningLoops == {i \in 1..Len(scan_loops) : scan_loops[i].pc # "ended"}

\* C38: at most one scan loop runs at a time, and a loop that was running
\* when stop() was called never goes round again: the next time it looks at
\* the flag it stops its watcher and ends, also when start() was called again
\* in between.
C38_OneLoopStopsForGood ==
    /\ Cardinality(RunningLoops) <= 1
    /\ \A i \in 1..Len(scan_loops) : ~scan_loops[i].rearmed

\* ------------------------------------------------------------------------
\* The observer's device list
\* ------------------------------------------------------------------------

\* The devices in the list the observer keeps.
ObservedDevices == {observed[k] : k \in DOMAIN observed}

\* C39: while its observer is registered, the set of devices the observer has
\* put together from device_added and device_removed equals get_devices() of
\* the InternalDiscovery it registered with, after any sequence of discovery
\* messages and start() calls.
C39_ObserverSeesRegistry ==
    SelfDelegate \in DELEGATES => ObservedDevices = get_devices

\* ------------------------------------------------------------------------
\* Calls from inside an observer's callback
\* ------------------------------------------------------------------------

\* C40: a call of get_devices(), stop() or get_connection_details() made from
\* inside device_added or device_removed returns: the notifying thread holds
\* no guard on a lock the call needs, so no thread gets stuck in a callback.
C40_CallbackMayCallBack ==
    /\ reentry.called => reentry.outcome = "returned"
    /\ \A t \in ScannerThreads : parse_pc[t] \notin Stuck
=============================================================================
